---- MODULE Spec2Model ----
(***************************************************************************)
(* A model of the Swagger/OpenAPI to TypeScript generator:                 *)
(*   src/src/parser.ts     parseSwaggerSpec and its helpers (the IR)       *)
(*   src/src/generator.ts  generateTypeDefinitions and its helpers         *)
(*                                                                         *)
(* JavaScript strings are modelled as sequences of one-character strings,  *)
(* so that the character-level functions (sanitizeTypeName, toPascalCase,  *)
(* isBasicType, split, replace) are computed as the code computes them.    *)
(* The text of a declaration (TypeDefinition.content) is a sequence of     *)
(* tokens: a template literal's fixed text is one token, an interpolated   *)
(* string contributes its characters.                                      *)
(*                                                                         *)
(* An optional JSON field is a sequence of length 0 (absent, undefined or  *)
(* null) or 1 (present).                                                   *)
(***************************************************************************)
EXTENDS Integers, Sequences, FiniteSets, TLC

VARIABLES
  pending,          \* the raw documents still to be generated from, in order
  raw,              \* the raw document of the current call (<<>> before the first)
  pc,               \* where the current call is
  parsedSpec,       \* the IR of the current call
  idx,              \* the next entry of components.schemas to resolve
  typeDefinitions,  \* the accumulator of the current call
  endpointsByTag,   \* the groups of the current call
  tagIdx,           \* the next group to generate a client class for
  results,          \* what each finished call returned, in order
  returned,         \* history: the name each top-level resolver call returned
  last,             \* history: the latest top-level resolver call
  again,            \* how many times a node was resolved a second time
  client,           \* a call of a generated client method: its text and its run
  command,          \* a run of the command (main)
  pure,             \* an application of a pure function: its arguments and results
  request           \* a call of fetchFromUrl: its callbacks and its promise

\* The state of generateTypeDefinitions and of its callers
generatorVars == <<pending, raw, pc, parsedSpec, idx, typeDefinitions, endpointsByTag,
                   tagIdx, results, returned, last, again>>

vars == <<generatorVars, client, command, request, pure>>

\* What a step of generateTypeDefinitions leaves alone
notGenerator == <<client, command, request, pure>>

\* What a step of a generated client method leaves alone
notClient == <<generatorVars, command, request, pure>>

-----------------------------------------------------------------------------
(* Characters and strings *)

UpperSeq == <<"A","B","C","D","E","F","G","H","I","J","K","L","M",
              "N","O","P","Q","R","S","T","U","V","W","X","Y","Z">>

LowerSeq == <<"a","b","c","d","e","f","g","h","i","j","k","l","m",
              "n","o","p","q","r","s","t","u","v","w","x","y","z">>

DigitChars == {"0","1","2","3","4","5","6","7","8","9"}

Range(s) == {s[k] : k \in DOMAIN s}

IsUpper(c) == c \in Range(UpperSeq)

IsLower(c) == c \in Range(LowerSeq)

IsDigit(c) == c \in DigitChars

\* \w of a JavaScript regular expression: [A-Za-z0-9_]
IsWord(c) == IsUpper(c) \/ IsLower(c) \/ IsDigit(c) \/ c = "_"

\* \s of a JavaScript regular expression (the white space the inputs use)
SpaceChars == {" ", "\t", "\n"}

IsSpace(c) == c \in SpaceChars

ToUpperChar(c) ==
  IF IsLower(c) THEN UpperSeq[CHOOSE k \in DOMAIN LowerSeq : LowerSeq[k] = c] ELSE c

ToLowerChar(c) ==
  IF IsUpper(c) THEN LowerSeq[CHOOSE k \in DOMAIN UpperSeq : UpperSeq[k] = c] ELSE c

toUpperCase(s) == [k \in DOMAIN s |-> ToUpperChar(s[k])]

toLowerCase(s) == [k \in DOMAIN s |-> ToLowerChar(s[k])]

\* str.slice(n) for n >= 0
SliceFrom(s, n) == SubSeq(s, n + 1, Len(s))

\* str.charAt(0): the empty string when str is empty
CharAt0(s) == IF Len(s) > 0 THEN <<s[1]>> ELSE <<>>

EndsWith(s, suffix) ==
  /\ Len(s) >= Len(suffix)
  /\ SubSeq(s, Len(s) - Len(suffix) + 1, Len(s)) = suffix

\* str.replace(/[^\w]/g, ''): drop the characters that are not word characters
RemoveNonWord(s) == SelectSeq(s, IsWord)

\* str.replace(/[^a-zA-Z0-9_]/g, '_'): replace them by an underscore
ReplaceNonWord(s) == [k \in DOMAIN s |-> IF IsWord(s[k]) THEN s[k] ELSE "_"]

\* str.split(sep): the pieces between the separator characters (an empty
\* string splits into one empty piece)
RECURSIVE SplitAcc(_, _, _)
SplitAcc(s, seps, cur) ==
  IF s = <<>> THEN <<cur>>
  ELSE IF s[1] \in seps THEN <<cur>> \o SplitAcc(Tail(s), seps, <<>>)
  ELSE SplitAcc(Tail(s), seps, Append(cur, s[1]))

Split(s, seps) == SplitAcc(s, seps, <<>>)

\* pieces.join(sep)
RECURSIVE Join(_, _)
Join(pieces, sep) ==
  IF pieces = <<>> THEN <<>>
  ELSE IF Len(pieces) = 1 THEN pieces[1]
  ELSE pieces[1] \o sep \o Join(Tail(pieces), sep)

\* The string literals of the code
s_any == <<"a","n","y">>
s_anyArr == <<"a","n","y","[","]">>
s_number == <<"n","u","m","b","e","r">>
s_bigint == <<"b","i","g","i","n","t">>
s_string == <<"s","t","r","i","n","g">>
s_boolean == <<"b","o","o","l","e","a","n">>
s_Date == <<"D","a","t","e">>
s_Blob == <<"B","l","o","b">>
s_void == <<"v","o","i","d">>
s_null == <<"n","u","l","l">>
s_undefined == <<"u","n","d","e","f","i","n","e","d">>
s_Record == <<"R","e","c","o","r","d","<","s","t","r","i","n","g",",",
              " ","a","n","y",">">>
s_integer == <<"i","n","t","e","g","e","r">>
s_array == <<"a","r","r","a","y">>
s_object == <<"o","b","j","e","c","t">>
s_enum == <<"e","n","u","m">>
s_int64 == <<"i","n","t","6","4">>
s_int32 == <<"i","n","t","3","2">>
s_date == <<"d","a","t","e">>
s_dateTime == <<"d","a","t","e","-","t","i","m","e">>
s_binary == <<"b","i","n","a","r","y">>
s_default == <<"d","e","f","a","u","l","t">>
s_Api == <<"A","p","i">>
s_API == <<"A","P","I">>
s_version == <<"1",".","0",".","0">>
s_DTO == <<"D","T","O">>
s_Item == <<"I","t","e","m">>
s_AllOf == <<"A","l","l","O","f">>
s_OneOf == <<"O","n","e","O","f">>
s_AnyOf == <<"A","n","y","O","f">>
s_Request == <<"R","e","q","u","e","s","t">>
s_Response == <<"R","e","s","p","o","n","s","e">>
s_query == <<"q","u","e","r","y">>
s_path == <<"p","a","t","h">>
s_header == <<"h","e","a","d","e","r">>
s_get == <<"g","e","t">>
s_post == <<"p","o","s","t">>
s_put == <<"p","u","t">>
s_delete == <<"d","e","l","e","t","e">>
s_patch == <<"p","a","t","c","h">>
s_options == <<"o","p","t","i","o","n","s">>
s_head == <<"h","e","a","d">>

-----------------------------------------------------------------------------
(* generator.ts: naming helpers *)

\* /[-_\s]/
Delimiters == {"-", "_"} \cup SpaceChars

\* /[A-Z]/.test(str)
ContainsUppercase(s) == \E k \in DOMAIN s : IsUpper(s[k])

\* /^[A-Z]/.test(str)
StartsUpper(s) == Len(s) > 0 /\ IsUpper(s[1])

PascalWordKeep(word) ==
  IF StartsUpper(word) THEN word
  ELSE toUpperCase(CharAt0(word)) \o SliceFrom(word, 1)

PascalWordLower(word) ==
  toUpperCase(CharAt0(word)) \o toLowerCase(SliceFrom(word, 1))

toPascalCase(str) ==
  LET words == Split(str, Delimiters) IN
  IF ContainsUppercase(str)
  THEN Join([k \in DOMAIN words |-> PascalWordKeep(words[k])], <<>>)
  ELSE Join([k \in DOMAIN words |-> PascalWordLower(words[k])], <<>>)

toCamelCase(str) ==
  LET pascal == toPascalCase(str) IN
  toLowerCase(CharAt0(pascal)) \o SliceFrom(pascal, 1)

\* /[A-Z][a-z]+[A-Z]/.test(name)
HasCamelHump(s) ==
  \E a \in DOMAIN s : \E b \in DOMAIN s :
    /\ b >= a + 2
    /\ IsUpper(s[a])
    /\ IsUpper(s[b])
    /\ \A k \in (a + 1)..(b - 1) : IsLower(s[k])

IsWordOrSpace(c) == IsWord(c) \/ IsSpace(c)

\* str.replace(/[^\w\s]/g, '')
RemoveNonWordOrSpace(s) == SelectSeq(s, IsWordOrSpace)

sanitizeTypeName(name) ==
  IF EndsWith(name, s_DTO) \/ HasCamelHump(name) THEN RemoveNonWord(name)
  ELSE IF StartsUpper(name) THEN RemoveNonWord(name)
  ELSE toPascalCase(RemoveNonWordOrSpace(name))

\* The mapping without the 64-bit case
toTsTypeNoInt64(type, format) ==
  IF type = <<>> THEN s_any
  ELSE LET t == toLowerCase(type) IN
    IF t = s_integer \/ t = s_number THEN s_number
    ELSE IF t = s_string
      THEN (IF format = s_date \/ format = s_dateTime THEN s_Date
            ELSE IF format = s_binary THEN s_Blob
            ELSE s_string)
    ELSE IF t = s_boolean THEN s_boolean
    ELSE IF t = s_array THEN s_anyArr
    ELSE s_Record

toTsType(type, format) ==
  IF type = <<>> THEN s_any
  ELSE LET t == toLowerCase(type) IN
    IF t = s_integer \/ t = s_number
      THEN (IF format = s_int64 THEN s_bigint ELSE s_number)
    ELSE IF t = s_string
      THEN (IF format = s_date \/ format = s_dateTime THEN s_Date
            ELSE IF format = s_binary THEN s_Blob
            ELSE s_string)
    ELSE IF t = s_boolean THEN s_boolean
    ELSE IF t = s_array THEN s_anyArr
    ELSE s_Record

basicTypes == <<s_string, s_number, s_boolean, s_any, s_Date, s_void, s_null,
                s_undefined, s_Blob>>

RECURSIVE isBasicType(_)
isBasicType(typeName) ==
  IF EndsWith(typeName, <<"[","]">>)
  THEN isBasicType(SubSeq(typeName, 1, Len(typeName) - 2))
  ELSE typeName \in Range(basicTypes)

-----------------------------------------------------------------------------
(* parser.ts: schemas *)

DigitSeq == <<"0","1","2","3","4","5","6","7","8","9">>

\* `${index}` of a non-negative integer
RECURSIVE NatToStr(_)
NatToStr(n) ==
  IF n < 10 THEN <<DigitSeq[n + 1]>>
  ELSE NatToStr(n \div 10) \o <<DigitSeq[(n % 10) + 1]>>

capitalizeFirstLetter(str) == toUpperCase(CharAt0(str)) \o SliceFrom(str, 1)

\* schema.$ref.split('/').pop()
RefTail(ref) == LET pieces == Split(ref, {"/"}) IN pieces[Len(pieces)]

\* A JavaScript string used as a condition: the empty string is falsy
Truthy(optStr) == optStr # <<>> /\ optStr[1] # <<>>

RECURSIVE parseSchema(_, _)
parseSchema(schema, name) ==
  LET apiSchema ==
        [name |-> name,
         type |-> IF schema.type # <<>> THEN schema.type
                  ELSE IF schema.enum # <<>> THEN s_enum ELSE s_object,
         format |-> schema.format,
         enum |-> schema.enum,
         nullable |-> schema.nullable,
         properties |-> <<>>,
         required |-> schema.required,
         items |-> <<>>,
         allOf |-> <<>>,
         oneOf |-> <<>>,
         anyOf |-> <<>>,
         reference |-> <<>>]
  IN
  IF Truthy(schema.ref)
  THEN [apiSchema EXCEPT !.reference = <<RefTail(schema.ref[1])>>]
  ELSE [apiSchema EXCEPT
         !.properties =
            [k \in DOMAIN schema.properties |->
               [key |-> schema.properties[k].key,
                schema |-> parseSchema(schema.properties[k].schema,
                             name \o capitalizeFirstLetter(schema.properties[k].key))]],
         !.items =
            IF schema.type = s_array /\ schema.items # <<>>
            THEN <<parseSchema(schema.items[1], name \o s_Item)>>
            ELSE <<>>,
         !.allOf =
            IF schema.allOf # <<>>
            THEN <<[k \in DOMAIN schema.allOf[1] |->
                     parseSchema(schema.allOf[1][k], name \o s_AllOf \o NatToStr(k - 1))]>>
            ELSE <<>>,
         !.oneOf =
            IF schema.oneOf # <<>>
            THEN <<[k \in DOMAIN schema.oneOf[1] |->
                     parseSchema(schema.oneOf[1][k], name \o s_OneOf \o NatToStr(k - 1))]>>
            ELSE <<>>,
         !.anyOf =
            IF schema.anyOf # <<>>
            THEN <<[k \in DOMAIN schema.anyOf[1] |->
                     parseSchema(schema.anyOf[1][k], name \o s_AnyOf \o NatToStr(k - 1))]>>
            ELSE <<>>]

-----------------------------------------------------------------------------
(* generator.ts: the schema resolver *)

\* The accumulator of one generation call (TypeDefinitions).  The field log is
\* a history of the declarations in the order they were appended, over the
\* three sequences together: [name, list, dependencies, depVia], where depVia
\* tells for each dependency how the resolver produced it.
EmptyTypeDefinitions ==
  [interfaces |-> <<>>, types |-> <<>>, enums |-> <<>>, apiClasses |-> <<>>,
   log |-> <<>>]

\* The declarations findExistingType searches, in its order
SchemaDeclarations(td) == td.interfaces \o td.types \o td.enums

\* null is <<>>, a found name n is <<n>>
findExistingType(name, td) ==
  LET all == SchemaDeclarations(td) IN
  IF \E k \in DOMAIN all : all[k].name = name THEN <<name>> ELSE <<>>

PushDeclaration(td, list, name, content, dependencies, depVia) ==
  LET definition == [name |-> name, content |-> content, dependencies |-> dependencies]
      entry == [name |-> name, list |-> list, dependencies |-> dependencies,
                depVia |-> depVia]
  IN [td EXCEPT ![list] = Append(@, definition), !.log = Append(@, entry)]

IsStringValue(value) == value.kind = "string"

\* JSON.stringify of an enum value (the text of a string value holds no
\* character that needs escaping)
JsonStringify(value) ==
  IF IsStringValue(value) THEN <<"\"">> \o value.text \o <<"\"">> ELSE value.text

RECURSIVE EnumMembers(_)
EnumMembers(values) ==
  IF values = <<>> THEN <<>>
  ELSE <<"  ">> \o ReplaceNonWord(values[1].text) \o <<" = \"">>
         \o values[1].text \o <<"\",\n">> \o EnumMembers(Tail(values))

EnumValues(schema) == IF schema.enum # <<>> THEN schema.enum[1] ELSE <<>>

processEnumSchema(schema, td) ==
  LET name == sanitizeTypeName(schema.name)
      enumValues == EnumValues(schema)
      isStringEnum == \A k \in DOMAIN enumValues : IsStringValue(enumValues[k])
      enumContent ==
        IF isStringEnum
        THEN <<"export enum ">> \o name \o <<" {\n">> \o EnumMembers(enumValues) \o <<"}">>
        ELSE <<"export type ">> \o name \o <<" = ">>
               \o Join([k \in DOMAIN enumValues |-> JsonStringify(enumValues[k])], <<" | ">>)
               \o <<";">>
  IN [name |-> name,
      td |-> PushDeclaration(td, "enums", name, enumContent, <<>>, <<>>),
      via |-> "emitted"]

RECURSIVE processSchema(_, _)
RECURSIVE processProperties(_, _, _)
RECURSIVE processComponents(_, _, _)

\* The loop of processObjectSchema over Object.entries(schema.properties)
processProperties(schema, k, st) ==
  IF k > Len(schema.properties) THEN st
  ELSE
    LET propName == schema.properties[k].key
        propSchema == schema.properties[k].schema
        r == processSchema(propSchema, st.td)
        isRequired == \E q \in DOMAIN schema.required : schema.required[q] = propName
        line == <<"  ">> \o propName \o (IF isRequired THEN <<>> ELSE <<"?">>)
                  \o <<": ">> \o r.name
                  \o (IF propSchema.nullable THEN <<" | null">> ELSE <<>>) \o <<";\n">>
        basic == isBasicType(r.name)
    IN processProperties(schema, k + 1,
         [td |-> r.td,
          content |-> st.content \o line,
          dependencies |-> IF basic THEN st.dependencies
                           ELSE Append(st.dependencies, r.name),
          depVia |-> IF basic THEN st.depVia ELSE Append(st.depVia, r.via)])

\* processObjectSchema with the declaration appended before those of the
\* properties it resolves
processObjectSchemaParentFirst(schema, td) ==
  LET name == sanitizeTypeName(schema.name)
      st == processProperties(schema, 1,
              [td |-> td,
               content |-> <<"export interface ">> \o name \o <<" {\n">>,
               dependencies |-> <<>>, depVia |-> <<>>])
      own == PushDeclaration(td, "interfaces", name, st.content \o <<"}">>,
                             st.dependencies, st.depVia)
  IN [name |-> name,
      td |-> [st.td EXCEPT
                !.interfaces = own.interfaces
                                 \o SubSeq(@, Len(td.interfaces) + 1, Len(@)),
                !.log = own.log \o SubSeq(@, Len(td.log) + 1, Len(@))],
      via |-> "emitted"]

processObjectSchema(schema, td) ==
  LET name == sanitizeTypeName(schema.name)
      st == processProperties(schema, 1,
              [td |-> td,
               content |-> <<"export interface ">> \o name \o <<" {\n">>,
               dependencies |-> <<>>, depVia |-> <<>>])
  IN [name |-> name,
      td |-> PushDeclaration(st.td, "interfaces", name, st.content \o <<"}">>,
                             st.dependencies, st.depVia),
      via |-> "emitted"]

processArraySchema(schema, td) ==
  IF schema.items = <<>> THEN [name |-> s_anyArr, td |-> td, via |-> "scalar"]
  ELSE
    LET r == processSchema(schema.items[1], td)
        name == sanitizeTypeName(schema.name)
        basic == isBasicType(r.name)
    IN [name |-> name,
        td |-> PushDeclaration(r.td, "types", name,
                 <<"export type ">> \o name \o <<" = ">> \o r.name \o <<"[];">>,
                 IF basic THEN <<>> ELSE <<r.name>>,
                 IF basic THEN <<>> ELSE <<r.via>>),
        via |-> "emitted"]

\* components.map(...) of the three composition cases
processComponents(components, k, st) ==
  IF k > Len(components) THEN st
  ELSE
    LET r == processSchema(components[k], st.td)
        basic == isBasicType(r.name)
    IN processComponents(components, k + 1,
         [td |-> r.td,
          componentTypes |-> Append(st.componentTypes, r.name),
          dependencies |-> IF basic THEN st.dependencies
                           ELSE Append(st.dependencies, r.name),
          depVia |-> IF basic THEN st.depVia ELSE Append(st.depVia, r.via)])

ComposeStart(td) ==
  [td |-> td, componentTypes |-> <<>>, dependencies |-> <<>>, depVia |-> <<>>]

processAllOfSchema(schema, td) ==
  IF schema.allOf = <<>> THEN [name |-> s_any, td |-> td, via |-> "scalar"]
  ELSE
    LET name == sanitizeTypeName(schema.name)
        st == processComponents(schema.allOf[1], 1, ComposeStart(td))
    IN [name |-> name,
        td |-> PushDeclaration(st.td, "types", name,
                 <<"export type ">> \o name \o <<" = ">>
                   \o Join(st.componentTypes, <<" & ">>) \o <<";">>,
                 st.dependencies, st.depVia),
        via |-> "emitted"]

processOneOfSchema(schema, td) ==
  IF schema.oneOf = <<>> THEN [name |-> s_any, td |-> td, via |-> "scalar"]
  ELSE
    LET name == sanitizeTypeName(schema.name)
        st == processComponents(schema.oneOf[1], 1, ComposeStart(td))
    IN [name |-> name,
        td |-> PushDeclaration(st.td, "types", name,
                 <<"export type ">> \o name \o <<" = ">>
                   \o Join(st.componentTypes, <<" | ">>) \o <<";">>,
                 st.dependencies, st.depVia),
        via |-> "emitted"]

\* processAnyOfSchema joining the member types as processAllOfSchema does
processAnyOfSchemaIntersection(schema, td) ==
  IF schema.anyOf = <<>> THEN [name |-> s_any, td |-> td, via |-> "scalar"]
  ELSE
    LET name == sanitizeTypeName(schema.name)
        st == processComponents(schema.anyOf[1], 1, ComposeStart(td))
    IN [name |-> name,
        td |-> PushDeclaration(st.td, "types", name,
                 <<"export type ">> \o name \o <<" = ">>
                   \o Join(st.componentTypes, <<" & ">>) \o <<";">>,
                 st.dependencies, st.depVia),
        via |-> "emitted"]

processAnyOfSchema(schema, td) ==
  IF schema.anyOf = <<>> THEN [name |-> s_any, td |-> td, via |-> "scalar"]
  ELSE
    LET name == sanitizeTypeName(schema.name)
        st == processComponents(schema.anyOf[1], 1, ComposeStart(td))
    IN [name |-> name,
        td |-> PushDeclaration(st.td, "types", name,
                 <<"export type ">> \o name \o <<" = ">>
                   \o Join(st.componentTypes, <<" | ">>) \o <<";">>,
                 st.dependencies, st.depVia),
        via |-> "emitted"]

NonEmptyList(opt) == opt # <<>> /\ Len(opt[1]) > 0

\* The cases of processSchema that append a declaration for the node itself
EmitsDeclaration(schema) ==
  /\ ~Truthy(schema.reference)
  /\ \/ NonEmptyList(schema.enum)
     \/ schema.type = s_object
     \/ Len(schema.properties) > 0
     \/ (schema.type = s_array /\ schema.items # <<>>)
     \/ NonEmptyList(schema.allOf)
     \/ NonEmptyList(schema.oneOf)
     \/ NonEmptyList(schema.anyOf)

processSchema(schema, td) ==
  IF Truthy(schema.reference)
  THEN [name |-> schema.reference[1], td |-> td, via |-> "reference"]
  ELSE
    LET existingType == findExistingType(schema.name, td) IN
    IF Truthy(existingType)
    THEN [name |-> existingType[1], td |-> td, via |-> "existing"]
    ELSE IF NonEmptyList(schema.enum) THEN processEnumSchema(schema, td)
    ELSE IF schema.type = s_object \/ Len(schema.properties) > 0
      THEN processObjectSchema(schema, td)
    ELSE IF schema.type = s_array /\ schema.items # <<>>
      THEN processArraySchema(schema, td)
    ELSE IF NonEmptyList(schema.allOf) THEN processAllOfSchema(schema, td)
    ELSE IF NonEmptyList(schema.oneOf) THEN processOneOfSchema(schema, td)
    ELSE IF NonEmptyList(schema.anyOf) THEN processAnyOfSchema(schema, td)
    ELSE [name |-> toTsType(schema.type, schema.format), td |-> td, via |-> "scalar"]

-----------------------------------------------------------------------------
(* parser.ts: the document *)

\* value || fallback, for a string
OrElse(optStr, fallback) == IF Truthy(optStr) THEN optStr[1] ELSE fallback

\* A thrown TypeError, and a normal return
Thrown == [threw |-> TRUE, value |-> <<>>]

Returned(v) == [threw |-> FALSE, value |-> v]

\* Object.entries(x): throws when x is undefined
ObjectEntries(opt) == IF opt = <<>> THEN Thrown ELSE Returned(opt[1])

parseParameter(param) ==
  [name |-> param.name,
   in |-> param.in,
   required |-> param.required,
   description |-> OrElse(param.description, <<>>),
   schema |-> IF param.schema # <<>>
              THEN <<parseSchema(param.schema[1], param.name)>> ELSE <<>>]

\* Object.keys(content)[0], undefined (<<>>) when there is no key
FirstContentType(content) == IF Len(content) > 0 THEN <<content[1].contentType>> ELSE <<>>

parseRequestBody(operation, operationId) ==
  IF operation.requestBody = <<>> THEN <<>>
  ELSE
    LET body == operation.requestBody[1]
        contentType == IF body.content # <<>> THEN FirstContentType(body.content[1])
                       ELSE <<>>
    IN IF Truthy(contentType) /\ body.content[1][1].media.schema # <<>>
       THEN <<[required |-> body.required,
               contentType |-> contentType[1],
               schema |-> parseSchema(body.content[1][1].media.schema[1],
                                      operationId \o s_Request)]>>
       ELSE <<>>

parseResponse(statusCode, response, operationId) ==
  [description |-> OrElse(response.description, <<>>),
   schema |->
     IF response.content # <<>>
     THEN (LET contentType == FirstContentType(response.content[1]) IN
           IF Truthy(contentType) /\ response.content[1][1].media.schema # <<>>
           THEN <<parseSchema(response.content[1][1].media.schema[1],
                              operationId \o s_Response \o statusCode)>>
           ELSE <<>>)
     ELSE IF response.schema # <<>>
     THEN <<parseSchema(response.schema[1], operationId \o s_Response \o statusCode)>>
     ELSE <<>>]

IsAlnum(c) == IsUpper(c) \/ IsLower(c) \/ IsDigit(c)

\* str.replace(/[^a-zA-Z0-9]/g, '')
RemoveNonAlnum(s) == SelectSeq(s, IsAlnum)

parseEndpoint(path, method, operation) ==
  LET operationId == OrElse(operation.operationId, method \o RemoveNonAlnum(path))
  IN [path |-> path,
      method |-> method,
      operationId |-> operationId,
      summary |-> OrElse(operation.summary, <<>>),
      description |-> OrElse(operation.description, <<>>),
      parameters |->
        IF operation.parameters # <<>>
        THEN [k \in DOMAIN operation.parameters[1] |->
                parseParameter(operation.parameters[1][k])]
        ELSE <<>>,
      requestBody |-> parseRequestBody(operation, operationId),
      responses |->
        IF operation.responses # <<>>
        THEN [k \in DOMAIN operation.responses[1] |->
                [status |-> operation.responses[1][k].status,
                 response |-> parseResponse(operation.responses[1][k].status,
                                            operation.responses[1][k].response,
                                            operationId)]]
        ELSE <<>>,
      tags |-> IF operation.tags # <<>> THEN operation.tags[1] ELSE <<>>]

methods == <<s_get, s_post, s_put, s_delete, s_patch, s_options, s_head>>

\* The operations of a path item, probed in the order of methods
RECURSIVE parsePathFrom(_, _, _)
parsePathFrom(path, pathItem, m) ==
  IF m > Len(methods) THEN <<>>
  ELSE
    LET here == SelectSeq(pathItem, LAMBDA e : e.method = methods[m]) IN
    (IF here # <<>> THEN <<parseEndpoint(path, methods[m], here[1].operation)>> ELSE <<>>)
      \o parsePathFrom(path, pathItem, m + 1)

parsePath(path, pathItem) == [endpoints |-> parsePathFrom(path, pathItem, 1)]

\* spec.paths without the "|| {}"
PathsNoDefault(spec) == spec.paths

\* spec.paths || {}
PathsOrEmpty(spec) == IF spec.paths = <<>> THEN <<<<>>>> ELSE spec.paths

\* The raw schemas parseSwaggerSpec reads: components.schemas when present,
\* else definitions, else none
RawSchemas(spec) ==
  IF spec.components # <<>> /\ spec.components[1].schemas # <<>>
  THEN spec.components[1].schemas[1]
  ELSE IF spec.definitions # <<>> THEN spec.definitions[1]
  ELSE <<>>

ParsedInfo(spec) ==
  [title |-> IF spec.info # <<>> THEN OrElse(spec.info[1].title, s_API) ELSE s_API,
   version |-> IF spec.info # <<>> THEN OrElse(spec.info[1].version, s_version)
               ELSE s_version,
   description |-> IF spec.info # <<>> THEN OrElse(spec.info[1].description, <<>>)
                   ELSE <<>>]

ParsedServers(spec) ==
  IF spec.servers # <<>>
  THEN [k \in DOMAIN spec.servers[1] |->
          [url |-> spec.servers[1][k].url,
           description |-> OrElse(spec.servers[1][k].description, <<>>)]]
  ELSE <<>>

\* The document that is JSON null: it has none of the fields of a document
NullDocument == [null |-> TRUE]

IsNull(spec) == DOMAIN spec = {"null"}

\* spec.info?.title throws a TypeError when spec itself is null (line 19)
parseSwaggerSpec(spec) ==
  IF IsNull(spec) THEN Thrown
  ELSE
  LET paths == ObjectEntries(PathsOrEmpty(spec))
      schemas == RawSchemas(spec)
  IN IF paths.threw THEN Thrown
     ELSE Returned(
       [info |-> ParsedInfo(spec),
        servers |-> ParsedServers(spec),
        basePath |-> OrElse(spec.basePath, <<>>),
        paths |-> [k \in DOMAIN paths.value |->
                     [path |-> paths.value[k].path,
                      item |-> parsePath(paths.value[k].path, paths.value[k].item)]],
        components |->
          [schemas |-> [k \in DOMAIN schemas |->
                          [key |-> schemas[k].key,
                           schema |-> parseSchema(schemas[k].schema, schemas[k].key)]]]])

-----------------------------------------------------------------------------
(* generator.ts: endpoints *)

s_constructor == <<"c","o","n","s","t","r","u","c","t","o","r">>
s_toString == <<"t","o","S","t","r","i","n","g">>
s_valueOf == <<"v","a","l","u","e","O","f">>

\* Property names every plain object inherits from Object.prototype (the ones
\* the inputs use): endpointsByTag[tag] is a function for them, not undefined
ObjectPrototypeKeys == {s_constructor, s_toString, s_valueOf}

\* allEndpoints: the endpoints of every path, in order
RECURSIVE AllEndpoints(_)
AllEndpoints(paths) ==
  IF paths = <<>> THEN <<>>
  ELSE paths[1].item.endpoints \o AllEndpoints(Tail(paths))

\* The inner loop of groupEndpointsByTag: endpointsByTag is a sequence of
\* [tag, endpoints] in the order the keys were created
RECURSIVE GroupUnderTags(_, _, _, _)
GroupUnderTags(groups, endpoint, tags, k) ==
  IF k > Len(tags) THEN Returned(groups)
  ELSE
    LET tag == tags[k]
        own == {g \in DOMAIN groups : groups[g].tag = tag}
    IN IF own # {}
       THEN GroupUnderTags(
              [groups EXCEPT ![CHOOSE g \in own : TRUE].endpoints = Append(@, endpoint)],
              endpoint, tags, k + 1)
       ELSE IF tag \in ObjectPrototypeKeys
       THEN Thrown   \* endpointsByTag[tag].push is not a function
       ELSE GroupUnderTags(
              Append(groups, [tag |-> tag, endpoints |-> <<endpoint>>]),
              endpoint, tags, k + 1)

RECURSIVE GroupEndpointsFrom(_, _, _)
GroupEndpointsFrom(groups, allEndpoints, k) ==
  IF k > Len(allEndpoints) THEN Returned(groups)
  ELSE
    LET endpoint == allEndpoints[k]
        tags == IF Len(endpoint.tags) > 0 THEN endpoint.tags ELSE <<s_default>>
        r == GroupUnderTags(groups, endpoint, tags, 1)
    IN IF r.threw THEN Thrown ELSE GroupEndpointsFrom(r.value, allEndpoints, k + 1)

groupEndpointsByTag(spec) == GroupEndpointsFrom(<<>>, AllEndpoints(spec.paths), 1)

\* The token that stands for the backquote character of the generated text
BT == "<backquote>"

ParamsIn(endpoint, location) ==
  SelectSeq(endpoint.parameters, LAMBDA p : p.in = location)

\* The type of a path parameter in the method signature
pathParamTsType(p) ==
  IF p.schema # <<>> THEN toTsType(p.schema[1].type, p.schema[1].format) ELSE s_any

\* The type of a field of the query-parameter record
queryParamTsType(p) ==
  IF p.schema # <<>> THEN toTsType(p.schema[1].type, p.schema[1].format) ELSE s_any

PathParamText(p) == p.name \o <<": ">> \o pathParamTsType(p)

QueryParamText(p) ==
  p.name \o (IF p.required THEN <<>> ELSE <<"?">>) \o <<": ">> \o queryParamTsType(p)

\* ", " when methodParams is not empty
Comma(methodParams) == IF methodParams # <<>> THEN <<", ">> ELSE <<>>

\* methodParams: the parameter list of the method signature
MethodParams(endpoint) ==
  LET queryParams == ParamsIn(endpoint, s_query)
      pathParams == ParamsIn(endpoint, s_path)
      headerParams == ParamsIn(endpoint, s_header)
      m1 == IF Len(pathParams) > 0
            THEN Join([k \in DOMAIN pathParams |-> PathParamText(pathParams[k])], <<", ">>)
            ELSE <<>>
      m2 == IF Len(queryParams) > 0
            THEN m1 \o Comma(m1) \o <<"queryParams: { ">>
                   \o Join([k \in DOMAIN queryParams |-> QueryParamText(queryParams[k])],
                           <<"; ">>)
                   \o <<" }">>
            ELSE m1
      m3 == IF endpoint.requestBody # <<>> THEN m2 \o Comma(m2) \o <<"data: any">> ELSE m2
      m4 == IF Len(headerParams) > 0
            THEN m3 \o Comma(m3) \o <<"headers?: Record<string, string>">>
            ELSE m3
  IN m4 \o Comma(m4) \o <<"options?: RequestOptions">>

RECURSIVE PathParamDocs(_)
PathParamDocs(pathParams) ==
  IF pathParams = <<>> THEN <<>>
  ELSE <<"   * @param ">> \o pathParams[1].name \o <<" ">> \o pathParams[1].description
         \o <<"\n">> \o PathParamDocs(Tail(pathParams))

MethodJsDoc(endpoint) ==
  <<"  /**\n", "   * ">> \o endpoint.summary \o <<"\n">>
    \o (IF endpoint.description # <<>>
        THEN <<"   * ">> \o endpoint.description \o <<"\n">> ELSE <<>>)
    \o PathParamDocs(ParamsIn(endpoint, s_path))
    \o (IF Len(ParamsIn(endpoint, s_query)) > 0
        THEN <<"   * @param queryParams Query parameters\n">> ELSE <<>>)
    \o (IF endpoint.requestBody # <<>>
        THEN <<"   * @param data Request body data\n">> ELSE <<>>)
    \o (IF Len(ParamsIn(endpoint, s_header)) > 0
        THEN <<"   * @param headers Custom headers\n">> ELSE <<>>)
    \o <<"   * @param options Request options\n", "   */\n">>

RECURSIVE PathReplaceLines(_)
PathReplaceLines(pathParams) ==
  IF pathParams = <<>> THEN <<>>
  ELSE <<"    url = url.replace('{">> \o pathParams[1].name
         \o <<"}', encodeURIComponent(String(">> \o pathParams[1].name \o <<")));\n">>
         \o PathReplaceLines(Tail(pathParams))

\* The lines with a test of the value in place of the comparison with undefined
RECURSIVE QueryAppendLinesTruthy(_)
QueryAppendLinesTruthy(queryParams) ==
  IF queryParams = <<>> THEN <<>>
  ELSE <<"    if (queryParams.">> \o queryParams[1].name \o <<") {\n">>
         \o <<"      searchParams.append('">> \o queryParams[1].name
         \o <<"', String(queryParams.">> \o queryParams[1].name \o <<"));\n">>
         \o <<"    }\n">>
         \o QueryAppendLinesTruthy(Tail(queryParams))

RECURSIVE QueryAppendLines(_)
QueryAppendLines(queryParams) ==
  IF queryParams = <<>> THEN <<>>
  ELSE <<"    if (queryParams.">> \o queryParams[1].name \o <<" !== undefined) {\n">>
         \o <<"      searchParams.append('">> \o queryParams[1].name
         \o <<"', String(queryParams.">> \o queryParams[1].name \o <<"));\n">>
         \o <<"    }\n">>
         \o QueryAppendLines(Tail(queryParams))

RECURSIVE HeaderLines(_)
HeaderLines(headerParams) ==
  IF headerParams = <<>> THEN <<>>
  ELSE (IF headerParams[1].required
        THEN <<"        '">> \o headerParams[1].name \o <<"': headers?.['">>
               \o headerParams[1].name \o <<"'] || '',\n">>
        ELSE <<"        ...(headers?.['">> \o headerParams[1].name \o <<"'] ? { '">>
               \o headerParams[1].name \o <<"': headers['">> \o headerParams[1].name
               \o <<"'] } : {}),\n">>)
         \o HeaderLines(Tail(headerParams))

MethodBody(endpoint) ==
  LET queryParams == ParamsIn(endpoint, s_query)
      pathParams == ParamsIn(endpoint, s_path)
      headerParams == ParamsIn(endpoint, s_header)
  IN <<"    let url = this.baseUrl + '">> \o endpoint.path \o <<"';\n">>
     \o (IF Len(pathParams) > 0
         THEN <<"\n    // Replace path parameters\n">> \o PathReplaceLines(pathParams)
         ELSE <<>>)
     \o (IF Len(queryParams) > 0
         THEN <<"\n    // Add query parameters\n",
                "    const searchParams = new URLSearchParams();\n">>
                \o QueryAppendLines(queryParams)
                \o <<"    const queryString = searchParams.toString();\n",
                     "    if (queryString) {\n",
                     "      url += ", BT, "?${queryString}", BT, ";\n",
                     "    }\n">>
         ELSE <<>>)
     \o <<"\n    // Prepare request options\n",
          "    const fetchOptions: RequestInit = {\n",
          "      method: '">> \o toUpperCase(endpoint.method) \o <<"',\n",
          "      ...options,\n",
          "      headers: {\n",
          "        'Content-Type': 'application/json',\n">>
     \o (IF Len(headerParams) > 0 THEN HeaderLines(headerParams) ELSE <<>>)
     \o <<"        ...headers,\n", "      },\n">>
     \o (IF endpoint.requestBody # <<>>
         THEN <<"      body: JSON.stringify(data),\n">> ELSE <<>>)
     \o <<"    };\n\n",
          "    // Make request\n",
          "    const response = await fetch(url, fetchOptions);\n",
          "    const contentType = response.headers.get('Content-Type') || '';\n\n",
          "    // Handle response\n",
          "    if (!response.ok) {\n",
          "      throw new Error(", BT,
          "API error: ${response.status} ${await response.text()}", BT, ");\n",
          "    }\n\n",
          "    // Parse response body\n",
          "    if (contentType.includes('application/json')) {\n",
          "      return await response.json();\n",
          "    } else {\n",
          "      return await response.text();\n",
          "    }\n",
          "  }\n">>

generateEndpointMethod(endpoint) ==
  MethodJsDoc(endpoint) \o <<"  async ">> \o toCamelCase(endpoint.operationId) \o <<"(">>
    \o MethodParams(endpoint) \o <<"): Promise<any> {\n">> \o MethodBody(endpoint)

RECURSIVE EndpointMethods(_)
EndpointMethods(endpoints) ==
  IF endpoints = <<>> THEN <<>>
  ELSE generateEndpointMethod(endpoints[1]) \o <<"\n">> \o EndpointMethods(Tail(endpoints))

generateApiClass(apiClassName, endpoints) ==
  <<"export class ">> \o apiClassName \o <<" {\n",
    "  private baseUrl: string;\n\n",
    "  constructor(baseUrl: string = '') {\n",
    "    this.baseUrl = baseUrl;\n",
    "  }\n\n">>
    \o EndpointMethods(endpoints) \o <<"}\n">>

-----------------------------------------------------------------------------
(* Raw documents: the inputs *)

NoSchema ==
  [ref |-> <<>>, type |-> <<>>, format |-> <<>>, enum |-> <<>>, nullable |-> FALSE,
   properties |-> <<>>, required |-> <<>>, items |-> <<>>, allOf |-> <<>>,
   oneOf |-> <<>>, anyOf |-> <<>>]

s_refPrefix == <<"#","/","c","o","m","p","o","n","e","n","t","s","/",
                 "s","c","h","e","m","a","s","/">>

RefTo(name) == [NoSchema EXCEPT !.ref = <<s_refPrefix \o name>>]

Scalar(type, format) == [NoSchema EXCEPT !.type = type, !.format = format]

StrVal(text) == [kind |-> "string", text |-> text]

NumVal(text) == [kind |-> "number", text |-> text]

EnumOf(type, values) == [NoSchema EXCEPT !.type = type, !.enum = <<values>>]

ObjectOf(type, properties, required) ==
  [NoSchema EXCEPT !.type = type, !.properties = properties, !.required = required]

ArrayOf(items) == [NoSchema EXCEPT !.type = s_array, !.items = <<items>>]

Prop(key, schema) == [key |-> key, schema |-> schema]

n_Pet == <<"P","e","t">>
n_User == <<"U","s","e","r">>
n_user == <<"u","s","e","r">>
n_id == <<"i","d">>
n_owner == <<"o","w","n","e","r">>
n_home == <<"h","o","m","e">>
n_city == <<"c","i","t","y">>
n_kind == <<"k","i","n","d">>

StringEnum == EnumOf(s_string, <<StrVal(<<"A">>), StrVal(<<"b","-","c">>)>>)

NumberEnum == EnumOf(s_integer, <<NumVal(<<"1">>), NumVal(<<"2">>), NumVal(<<"3">>)>>)

MixedEnum == EnumOf(<<>>, <<StrVal(<<"A">>), NumVal(<<"1">>)>>)

Int64 == Scalar(s_integer, s_int64)

DateTime == Scalar(s_string, s_dateTime)

\* The names of the top-level schemas
SchemaNames == {n_Pet, n_User, n_user}

\* The shapes of the top-level schemas
SchemaShapes ==
  { ObjectOf(s_object, <<Prop(n_id, Int64), Prop(n_owner, RefTo(n_User))>>, <<n_id>>),
    ObjectOf(<<>>, <<Prop(n_home, ObjectOf(<<>>, <<Prop(n_city, Scalar(s_string, <<>>))>>,
                                           <<>>)),
                     Prop(n_kind, [StringEnum EXCEPT !.nullable = TRUE])>>, <<n_home>>),
    ObjectOf(s_object, <<>>, <<>>),
    StringEnum,
    NumberEnum,
    MixedEnum,
    ArrayOf(RefTo(n_Pet)),
    ArrayOf(ObjectOf(s_object, <<Prop(n_id, DateTime)>>, <<>>)),
    [NoSchema EXCEPT !.allOf = <<<<RefTo(n_User), ObjectOf(s_object, <<>>, <<>>)>>>>],
    [NoSchema EXCEPT !.type = s_string,
                     !.allOf = <<<<RefTo(n_User), ObjectOf(s_object, <<>>, <<>>)>>>>],
    [NoSchema EXCEPT !.type = s_string, !.oneOf = <<<<RefTo(n_Pet), Int64>>>>],
    DateTime }

NoOperation ==
  [operationId |-> <<>>, summary |-> <<>>, description |-> <<>>, parameters |-> <<>>,
   requestBody |-> <<>>, responses |-> <<>>, tags |-> <<>>]

Param(name, location, required, schema) ==
  [name |-> name, in |-> location, required |-> required, description |-> <<>>,
   schema |-> schema, type |-> <<>>, format |-> <<>>]

PathEntry(path, method, operation) ==
  [path |-> path, item |-> <<[method |-> method, operation |-> operation]>>]

NoDocument ==
  [info |-> <<>>, servers |-> <<>>, basePath |-> <<>>, paths |-> <<>>,
   components |-> <<>>, definitions |-> <<>>]

\* An OpenAPI 3.x document with these schemas and paths
Document(schemas, paths) ==
  [NoDocument EXCEPT !.paths = <<paths>>,
                     !.components = <<[schemas |-> <<schemas>>]>>]

MaxSchemas == 2

\* The sequences of at most MaxSchemas top-level schemas with distinct names
\* (the keys of an object are distinct)
SchemaLists ==
  UNION { { [k \in 1..n |-> Prop(ns[k], ss[k])] :
              ns \in { f \in [1..n -> SchemaNames] :
                         \A i \in 1..n : \A j \in 1..n : i # j => f[i] # f[j] },
              ss \in [1..n -> SchemaShapes] } :
          n \in 0..MaxSchemas }

p_pets == <<"/","p","e","t","s">>
p_petsId == <<"/","p","e","t","s","/","{","i","d","}">>
t_A == <<"A">>
t_B == <<"B">>
n_q == <<"q">>
n_xKey == <<"X","-","K","e","y">>
o_listPets == <<"l","i","s","t","P","e","t","s">>

\* The tag lists of the operations (absent, or present)
TagLists ==
  { <<>>, <<<<>>>>, <<<<t_A>>>>, <<<<t_A, t_B>>>>, <<<<t_B>>>>, <<<<s_default>>>>,
    <<<<s_constructor>>>> }

\* The parameter lists of the operations
ParameterLists ==
  { <<>>,
    <<<<Param(n_id, s_path, TRUE, <<Int64>>)>>>>,
    <<<<Param(n_id, s_path, TRUE, <<RefTo(n_Pet)>>)>>>>,
    <<<<Param(n_id, s_path, TRUE, <<>>), Param(n_q, s_query, FALSE, <<StringEnum>>),
        Param(n_xKey, s_header, TRUE, <<Scalar(s_string, <<>>)>>)>>>> }

Operations ==
  { [NoOperation EXCEPT !.tags = t, !.parameters = ps] :
      t \in TagLists, ps \in ParameterLists }

\* The paths of a document: none, one operation, or two operations on two paths
PathLists ==
  { <<>> }
  \cup { <<PathEntry(p_petsId, s_get, op)>> : op \in Operations }
  \cup { <<PathEntry(p_petsId, s_get, [NoOperation EXCEPT !.tags = t1]),
           PathEntry(p_pets, s_post,
                     [NoOperation EXCEPT !.tags = t2, !.operationId = <<o_listPets>>])>> :
           t1 \in TagLists, t2 \in TagLists }

PetSchema == ObjectOf(s_object, <<Prop(n_id, Int64)>>, <<n_id>>)

\* The documents of the main specification
Documents ==
  { Document(schemas, <<PathEntry(p_pets, s_get, NoOperation)>>) : schemas \in SchemaLists }
  \cup { Document(<<Prop(n_Pet, PetSchema)>>, paths) : paths \in PathLists }

-----------------------------------------------------------------------------
(* The generator as a state machine: calls of parseSwaggerSpec and            *)
(* generateTypeDefinitions, one after the other                               *)

\* The accumulator kept from one call to the next
KeptTypeDefinitions(previous) == previous

\* The accumulator a call starts from (generator.ts, lines 17-22); previous is
\* the accumulator the preceding call left behind, which the code never reads
NewTypeDefinitions(previous) == EmptyTypeDefinitions

InitGenerator(inputs) ==
  /\ pending \in inputs
  /\ raw = <<>>
  /\ pc = "idle"
  /\ parsedSpec = <<>>
  /\ idx = 0
  /\ typeDefinitions = EmptyTypeDefinitions
  /\ endpointsByTag = <<>>
  /\ tagIdx = 0
  /\ results = <<>>
  /\ returned = <<>>
  /\ last = <<>>
  /\ again = 0

\* No client method, command or download is running
InitWith(inputs) ==
  /\ InitGenerator(inputs)
  /\ client = <<>>
  /\ command = <<>>
  /\ request = <<>>
  /\ pure = <<>>

Init == InitWith({<<d>> : d \in Documents})

\* The member schemas of a composition
Members ==
  { RefTo(n_User), Int64, DateTime, Scalar(s_string, <<>>), Scalar(s_array, <<>>),
    ObjectOf(s_object, <<Prop(n_id, Int64)>>, <<>>), StringEnum }

\* What a composing schema carries besides its composition list
ComposeBases == { NoSchema, Scalar(s_string, <<>>) }

ComposeDocument(name, schema) ==
  Document(<<Prop(name, schema)>>, <<PathEntry(p_pets, s_get, NoOperation)>>)

\* A oneOf document, then the anyOf document of the same name and members
ComposePairs ==
  { << ComposeDocument(n, [b EXCEPT !.oneOf = <<<<m1, m2>>>>]),
       ComposeDocument(n, [b EXCEPT !.anyOf = <<<<m1, m2>>>>]) >> :
      n \in {n_Pet, n_user}, b \in ComposeBases, <<m1, m2>> \in Members \X Members }

InitCompose == InitWith(ComposePairs)

s_defPrefix == <<"#","/","d","e","f","i","n","i","t","i","o","n","s","/">>
s_json == <<"a","p","p","l","i","c","a","t","i","o","n","/","j","s","o","n">>
s_200 == <<"2","0","0">>
t_pets == <<"p","e","t","s">>
n_name == <<"n","a","m","e">>

\* A Swagger 2.0 reference to a definition
RefToDefinition(name) == [NoSchema EXCEPT !.ref = <<s_defPrefix \o name>>]

NoResponse == [description |-> <<>>, content |-> <<>>, schema |-> <<>>]

\* The fixtures of the two dialects: the properties of the object schema Pet,
\* the type and format of the path parameter id, the tag of the GET operation,
\* and whether its 200 response refers to Pet
DialectFixtures ==
  [ properties : { <<Prop(n_id, Int64)>>,
                   <<Prop(n_id, Scalar(s_integer, <<>>)),
                     Prop(n_name, Scalar(s_string, <<>>))>> },
    type : { s_integer, s_string },
    format : { <<>>, s_int64 },
    tag : { t_A, t_pets },
    response : BOOLEAN ]

\* Swagger 2.0: schemas under definitions, the parameter's type on the
\* parameter, the response's schema on the response
SwaggerDocument(f) ==
  [NoDocument EXCEPT
     !.definitions = <<<<Prop(n_Pet, ObjectOf(s_object, f.properties, <<n_id>>))>>>>,
     !.paths = <<<<PathEntry(p_petsId, s_get,
        [NoOperation EXCEPT
           !.tags = <<<<f.tag>>>>,
           !.parameters = <<<<[Param(n_id, s_path, TRUE, <<>>) EXCEPT
                                !.type = f.type, !.format = f.format]>>>>,
           !.responses =
              IF f.response
              THEN <<<<[status |-> s_200,
                        response |-> [NoResponse EXCEPT
                                        !.schema = <<RefToDefinition(n_Pet)>>]]>>>>
              ELSE <<>>])>>>>]

\* OpenAPI 3.x: schemas under components.schemas, the parameter's type under
\* schema, the response's schema under content
OpenApiDocument(f) ==
  [NoDocument EXCEPT
     !.components =
        <<[schemas |-> <<<<Prop(n_Pet, ObjectOf(s_object, f.properties, <<n_id>>))>>>>]>>,
     !.paths = <<<<PathEntry(p_petsId, s_get,
        [NoOperation EXCEPT
           !.tags = <<<<f.tag>>>>,
           !.parameters = <<<<Param(n_id, s_path, TRUE, <<Scalar(f.type, f.format)>>)>>>>,
           !.responses =
              IF f.response
              THEN <<<<[status |-> s_200,
                        response |-> [NoResponse EXCEPT
                          !.content = <<<<[contentType |-> s_json,
                                           media |-> [schema |-> <<RefTo(n_Pet)>>]]>>>>]]>>>>
              ELSE <<>>])>>>>]

InitDialect == InitWith({ <<SwaggerDocument(f), OpenApiDocument(f)>> : f \in DialectFixtures })

MaxCalls == 3

\* The documents a service generates from, one call after the other
CallDocuments ==
  { Document(<<Prop(n_user, PetSchema)>>,
             <<PathEntry(p_pets, s_get, [NoOperation EXCEPT !.tags = <<<<t_A>>>>])>>),
    Document(<<Prop(n_Pet, ObjectOf(s_object,
                                    <<Prop(n_owner, RefTo(n_User)),
                                      Prop(n_home, ObjectOf(s_object, <<>>, <<>>))>>,
                                    <<>>))>>,
             <<PathEntry(p_petsId, s_get, [NoOperation EXCEPT !.tags = <<<<t_A, t_B>>>>])>>),
    Document(<<Prop(n_User, StringEnum), Prop(n_Pet, ArrayOf(RefTo(n_User)))>>, <<>>),
    Document(<<Prop(n_Pet, PetSchema)>>,
             <<PathEntry(p_pets, s_get,
                         [NoOperation EXCEPT !.tags = <<<<s_constructor>>>>])>>) }

InitCalls == InitWith(UNION { [1..n -> CallDocuments] : n \in 1..MaxCalls })

s_title == <<"S","h","o","p">>
s_v2 == <<"2",".","1">>
s_about == <<"a","b","o","u","t">>
s_url == <<"h","t","t","p",":","/","/","x">>

\* info: absent, or present with any subset of its fields
OptionalInfos ==
  { <<>> } \cup
  { <<[title |-> t, version |-> v, description |-> d]>> :
      t \in {<<>>, <<s_title>>}, v \in {<<>>, <<s_v2>>}, d \in {<<>>, <<s_about>>} }

OptionalServers == { <<>>, <<<<[url |-> s_url, description |-> <<>>]>>>> }

\* components and definitions: both absent, components without schemas,
\* components.schemas, definitions
OptionalSchemaSources ==
  { [components |-> <<>>, definitions |-> <<>>],
    [components |-> <<[schemas |-> <<>>]>>, definitions |-> <<>>],
    [components |-> <<[schemas |-> <<<<Prop(n_Pet, PetSchema)>>>>]>>, definitions |-> <<>>],
    [components |-> <<>>, definitions |-> <<<<Prop(n_user, PetSchema)>>>>] }

\* parameters: absent, or one parameter with or without a schema
OptionalParameters ==
  { <<>>, <<<<Param(n_id, s_path, TRUE, <<>>)>>>>,
    <<<<Param(n_id, s_path, TRUE, <<Int64>>)>>>> }

JsonBody ==
  [required |-> TRUE,
   content |-> <<<<[contentType |-> s_json, media |-> [schema |-> <<RefTo(n_Pet)>>]]>>>>]

\* An operation with any subset of its optional fields
OptionalOperations ==
  { [operationId |-> oid, summary |-> sm, description |-> ds, parameters |-> ps,
     requestBody |-> rb, responses |-> rs, tags |-> tg] :
      oid \in {<<>>, <<o_listPets>>}, sm \in {<<>>, <<s_about>>},
      ds \in {<<>>, <<s_about>>}, ps \in OptionalParameters,
      rb \in {<<>>, <<JsonBody>>},
      rs \in {<<>>, <<<<[status |-> s_200, response |-> NoResponse]>>>>},
      tg \in {<<>>, <<<<t_A>>>>} }

OptionalPaths ==
  { <<>> } \cup { <<<<PathEntry(p_petsId, s_get, op)>>>> : op \in OptionalOperations }

\* Documents with any subset of the optional fields absent
OptionalDocuments ==
  { [info |-> i, servers |-> sv, basePath |-> <<>>, paths |-> ps,
     components |-> src.components, definitions |-> src.definitions] :
      i \in OptionalInfos, sv \in OptionalServers, ps \in OptionalPaths,
      src \in OptionalSchemaSources }

InitOptional == InitWith({ <<d>> : d \in OptionalDocuments })

\* What a call that threw leaves: nothing is returned (parsed is <<>> when it
\* was parseSwaggerSpec that threw)
Failure(document, parsed) ==
  [raw |-> document, threw |-> TRUE, parsedSpec |-> parsed,
   typeDefinitions |-> EmptyTypeDefinitions]

Success(document, spec, td) ==
  [raw |-> document, threw |-> FALSE, parsedSpec |-> <<spec>>, typeDefinitions |-> td]

\* parseSwaggerSpec on the next document
ParseSpec ==
  /\ pc = "idle"
  /\ pending # <<>>
  /\ LET r == parseSwaggerSpec(Head(pending)) IN
       /\ raw' = <<Head(pending)>>
       /\ pending' = Tail(pending)
       /\ IF r.threw
          THEN /\ pc' = "idle"
               /\ parsedSpec' = <<>>
               /\ results' = Append(results, Failure(Head(pending), <<>>))
          ELSE /\ pc' = "parsed"
               /\ parsedSpec' = <<r.value>>
               /\ results' = results
  /\ UNCHANGED <<idx, typeDefinitions, endpointsByTag, tagIdx, returned, last, again>>
  /\ UNCHANGED notGenerator

\* generateTypeDefinitions, lines 17-22: the accumulator of the call
BeginGenerate ==
  /\ pc = "parsed"
  /\ pc' = "schemas"
  /\ typeDefinitions' = NewTypeDefinitions(typeDefinitions)
  /\ idx' = 1
  /\ returned' = <<>>
  /\ last' = <<>>
  /\ again' = 0
  /\ endpointsByTag' = <<>>
  /\ tagIdx' = 0
  /\ UNCHANGED <<pending, raw, parsedSpec, results>>
  /\ UNCHANGED notGenerator

Schemas == parsedSpec[1].components.schemas

ResolverCall(k, schema, r, repeat) ==
  [k |-> k, schema |-> schema, before |-> typeDefinitions, after |-> r.td,
   name |-> r.name, repeat |-> repeat]

\* generateTypeDefinitions, lines 23-25: one iteration over components.schemas
ProcessNextSchema ==
  /\ pc = "schemas"
  /\ idx <= Len(Schemas)
  /\ LET r == processSchema(Schemas[idx].schema, typeDefinitions) IN
       /\ typeDefinitions' = r.td
       /\ returned' = Append(returned, [name |-> r.name, via |-> r.via])
       /\ last' = <<ResolverCall(idx, Schemas[idx].schema, r, FALSE)>>
  /\ idx' = idx + 1
  /\ UNCHANGED <<pending, raw, pc, parsedSpec, endpointsByTag, tagIdx, results, again>>
  /\ UNCHANGED notGenerator

\* generateTypeDefinitions, line 28
GroupEndpoints ==
  /\ pc = "schemas"
  /\ idx > Len(Schemas)
  /\ LET r == groupEndpointsByTag(parsedSpec[1]) IN
       IF r.threw
       THEN /\ pc' = "idle"
            /\ results' = Append(results, Failure(raw[1], parsedSpec))
            /\ UNCHANGED <<endpointsByTag, tagIdx>>
       ELSE /\ pc' = "classes"
            /\ endpointsByTag' = r.value
            /\ tagIdx' = 1
            /\ results' = results
  /\ UNCHANGED <<pending, raw, parsedSpec, idx, typeDefinitions, returned, last, again>>
  /\ UNCHANGED notGenerator

ApiClassName(tag) == toPascalCase(tag) \o s_Api

\* generateTypeDefinitions, lines 30-42: one iteration over the groups
GenerateNextApiClass ==
  /\ pc = "classes"
  /\ tagIdx <= Len(endpointsByTag)
  /\ LET apiClassName == ApiClassName(endpointsByTag[tagIdx].tag)
         apiClassContent == generateApiClass(apiClassName, endpointsByTag[tagIdx].endpoints)
     IN typeDefinitions' =
          [typeDefinitions EXCEPT !.apiClasses =
             Append(@, [name |-> apiClassName, content |-> apiClassContent,
                        dependencies |-> <<>>])]
  /\ tagIdx' = tagIdx + 1
  /\ UNCHANGED <<pending, raw, pc, parsedSpec, idx, endpointsByTag, results, returned,
                 last, again>>
  /\ UNCHANGED notGenerator

\* generateTypeDefinitions, line 44
ReturnDefinitions ==
  /\ pc = "classes"
  /\ tagIdx > Len(endpointsByTag)
  /\ pc' = "idle"
  /\ results' = Append(results, Success(raw[1], parsedSpec[1], typeDefinitions))
  /\ UNCHANGED <<pending, raw, parsedSpec, idx, typeDefinitions, endpointsByTag, tagIdx,
                 returned, last, again>>
  /\ UNCHANGED notGenerator

MaxAgain == 1

\* A second call of processSchema on a node of components.schemas that the
\* current call has already resolved
ResolveAgain ==
  /\ pc \in {"schemas", "classes"}
  /\ again < MaxAgain
  /\ \E k \in 1..(idx - 1) :
       LET r == processSchema(Schemas[k].schema, typeDefinitions) IN
         /\ typeDefinitions' = r.td
         /\ last' = <<ResolverCall(k, Schemas[k].schema, r, TRUE)>>
  /\ again' = again + 1
  /\ UNCHANGED <<pending, raw, pc, parsedSpec, idx, endpointsByTag, tagIdx, results,
                 returned>>
  /\ UNCHANGED notGenerator

Next ==
  \/ ParseSpec
  \/ BeginGenerate
  \/ ProcessNextSchema
  \/ GroupEndpoints
  \/ GenerateNextApiClass
  \/ ReturnDefinitions

Spec == Init /\ [][Next]_vars

\* A oneOf schema and its anyOf twin, each in a call of its own
SpecCompose == InitCompose /\ [][Next]_vars

\* A Swagger 2.0 document and the equivalent OpenAPI 3.x document
SpecDialect == InitDialect /\ [][Next]_vars

\* Several calls, one after the other
SpecCalls == InitCalls /\ [][Next]_vars

\* Documents with optional fields absent
SpecOptional == InitOptional /\ [][Next]_vars

NextResolver == Next \/ ResolveAgain

\* The generator, with second resolver calls on nodes already resolved
SpecResolver == Init /\ [][NextResolver]_vars

-----------------------------------------------------------------------------
(* A call of a generated client method: the statements that                   *)
(* generateEndpointMethod emits (generator.ts, lines 461-539), run on the     *)
(* arguments of a caller                                                      *)

\* JavaScript values: a primitive has a kind and its String(value) text; an
\* object has fields, a function from keys to values
Undefined == [kind |-> "undefined", text |-> s_undefined, fields |-> <<>>]

Text(chars) == [kind |-> "string", text |-> chars, fields |-> <<>>]

Number(digits) == [kind |-> "number", text |-> digits, fields |-> <<>>]

False == [kind |-> "boolean", text |-> <<"f","a","l","s","e">>, fields |-> <<>>]

Object(fields) ==
  [kind |-> "object",
   text |-> <<"[","o","b","j","e","c","t"," ","O","b","j","e","c","t","]">>,
   fields |-> fields]

\* String(value)
String(value) == value.text

\* value is falsy: undefined, '', 0, false
Falsy(value) ==
  \/ value.kind = "undefined"
  \/ value.kind = "string" /\ value.text = <<>>
  \/ value.kind = "number" /\ value.text = <<"0">>
  \/ value.kind = "boolean" /\ value = False

\* object[key]: undefined when the object has no such key
Get(object, key) == IF key \in DOMAIN object.fields THEN object.fields[key] ELSE Undefined

\* { ...a, ...b }: the keys of both, b's values winning; spreading undefined
\* adds nothing
Merge(a, b) ==
  [k \in DOMAIN a \cup DOMAIN b |-> IF k \in DOMAIN b THEN b[k] ELSE a[k]]

\* The characters encodeURIComponent leaves as they are
UriUnreserved ==
  Range(UpperSeq) \cup Range(LowerSeq) \cup DigitChars
    \cup {"-", "_", ".", "!", "~", "*", "'", "(", ")"}

\* The percent-encoding of a character of the arguments
PercentEncode(c) ==
  CASE c = " " -> <<"%","2","0">>
    [] c = "/" -> <<"%","2","F">>
    [] c = "{" -> <<"%","7","B">>
    [] c = "}" -> <<"%","7","D">>
    [] c = "?" -> <<"%","3","F">>
    [] c = "=" -> <<"%","3","D">>
    [] c = "&" -> <<"%","2","6">>
    [] c = "$" -> <<"%","2","4">>
    [] OTHER -> <<"%", c>>

RECURSIVE encodeURIComponent(_)
encodeURIComponent(s) ==
  IF s = <<>> THEN <<>>
  ELSE (IF s[1] \in UriUnreserved THEN <<s[1]>> ELSE PercentEncode(s[1]))
         \o encodeURIComponent(Tail(s))

\* The least index of pattern in s, 0 when s does not contain it
IndexOf(s, pattern) ==
  LET at == { i \in 1..(Len(s) - Len(pattern) + 1) :
                SubSeq(s, i, i + Len(pattern) - 1) = pattern }
  IN IF at = {} THEN 0 ELSE CHOOSE i \in at : \A j \in at : i <= j

\* s.replace(pattern, replacement) with a string pattern: the first occurrence
\* only (replacement holds no "$", encodeURIComponent encodes it)
ReplaceFirst(s, pattern, replacement) ==
  LET i == IndexOf(s, pattern) IN
  IF i = 0 THEN s
  ELSE SubSeq(s, 1, i - 1) \o replacement \o SubSeq(s, i + Len(pattern), Len(s))

\* The least index j >= i with text[j] = token, 0 when there is none
TokenFrom(text, i, token) ==
  LET at == { j \in i..Len(text) : text[j] = token }
  IN IF at = {} THEN 0 ELSE CHOOSE j \in at : \A k \in at : j <= k

\* The characters of text from i up to the next token
Upto(text, i, token) == SubSeq(text, i, TokenFrom(text, i, token) - 1)

\* The names the signature always gives to the query record, the body, the
\* header record and the transport options
a_queryParams == <<"q","u","e","r","y","P","a","r","a","m","s">>
a_data == <<"d","a","t","a">>
a_headers == <<"h","e","a","d","e","r","s">>
a_options == <<"o","p","t","i","o","n","s">>

\* The name a piece of the parameter list declares
DeclaredName(piece) ==
  IF piece[1] = "queryParams: { " THEN a_queryParams
  ELSE IF piece[1] = "data: any" THEN a_data
  ELSE IF piece[1] = "headers?: Record<string, string>" THEN a_headers
  ELSE IF piece[1] = "options?: RequestOptions" THEN a_options
  ELSE Upto(piece, 1, ": ")

\* The parameter names of the signature of a method text, in order
SignatureNames(text) ==
  LET open == TokenFrom(text, TokenFrom(text, 1, "  async "), "(")
      close == TokenFrom(text, open, "): Promise<any> {\n")
      pieces == Split(SubSeq(text, open + 1, close - 1), {", "})
  IN [k \in DOMAIN pieces |-> DeclaredName(pieces[k])]

\* The value of an identifier of the body: the argument of that name when the
\* signature declares it, a ReferenceError otherwise
Declared(scope, identifier) == identifier \in DOMAIN scope

\* A call that has just entered the method body
Call(endpoint, text, baseUrl, scope) ==
  [endpoint |-> endpoint,
   text |-> text,
   ip |-> TokenFrom(text, 1, "): Promise<any> {\n") + 1,
   scope |-> scope,
   baseUrl |-> baseUrl,
   url |-> <<>>,
   searchParams |-> <<>>,
   fetchOptions |-> Undefined,
   sent |-> <<>>,
   outcome |-> "running"]

Running == client # <<>> /\ client.outcome = "running"

\* The token the call is at
At(token) == Running /\ client.text[client.ip] = token

\* The statement throws
Throw(error) == client' = [client EXCEPT !.outcome = error]

\* let url = this.baseUrl + '<path>';
LetUrl ==
  /\ At("    let url = this.baseUrl + '")
  /\ LET end == TokenFrom(client.text, client.ip, "';\n") IN
       client' = [client EXCEPT
                    !.url = client.baseUrl \o SubSeq(client.text, client.ip + 1, end - 1),
                    !.ip = end + 1]
  /\ UNCHANGED notClient

\* A comment line
Comment ==
  /\ \/ At("\n    // Replace path parameters\n")
     \/ At("\n    // Add query parameters\n")
     \/ At("\n    // Prepare request options\n")
     \/ At("    // Make request\n")
  /\ client' = [client EXCEPT !.ip = @ + 1]
  /\ UNCHANGED notClient

\* url = url.replace('{<name>}', encodeURIComponent(String(<name>)));
ReplacePathParameter ==
  /\ At("    url = url.replace('{")
  /\ LET mid == TokenFrom(client.text, client.ip, "}', encodeURIComponent(String(")
         end == TokenFrom(client.text, mid, ")));\n")
         name == SubSeq(client.text, client.ip + 1, mid - 1)
         identifier == SubSeq(client.text, mid + 1, end - 1)
     IN IF ~Declared(client.scope, identifier) THEN Throw("ReferenceError")
        ELSE client' =
               [client EXCEPT
                  !.url = ReplaceFirst(@, <<"{">> \o name \o <<"}">>,
                                       encodeURIComponent(String(client.scope[identifier]))),
                  !.ip = end + 1]
  /\ UNCHANGED notClient

\* const searchParams = new URLSearchParams();
NewSearchParams ==
  /\ At("    const searchParams = new URLSearchParams();\n")
  /\ client' = [client EXCEPT !.searchParams = <<>>, !.ip = @ + 1]
  /\ UNCHANGED notClient

\* if (queryParams.<name> !== undefined) {     (or: if (queryParams.<name>) {)
\*   searchParams.append('<name>', String(queryParams.<name>));
\* }
AppendQueryParameter ==
  /\ At("    if (queryParams.")
  /\ LET text == client.text
         strict == TokenFrom(text, client.ip, " !== undefined) {\n")
         truthy == TokenFrom(text, client.ip, ") {\n")
         t1 == IF strict # 0 /\ (truthy = 0 \/ strict < truthy) THEN strict ELSE truthy
         t2 == TokenFrom(text, t1, "', String(queryParams.")
         t3 == TokenFrom(text, t2, "));\n")
         tested == SubSeq(text, client.ip + 1, t1 - 1)
         key == SubSeq(text, t1 + 2, t2 - 1)
         read == SubSeq(text, t2 + 1, t3 - 1)
     IN IF ~Declared(client.scope, a_queryParams) THEN Throw("ReferenceError")
        ELSE IF client.scope[a_queryParams].kind # "object" THEN Throw("TypeError")
        ELSE IF (IF t1 = strict THEN Get(client.scope[a_queryParams], tested) # Undefined
                 ELSE ~Falsy(Get(client.scope[a_queryParams], tested)))
          THEN client' =
                 [client EXCEPT
                    !.searchParams =
                      Append(@, <<key, String(Get(client.scope[a_queryParams], read))>>),
                    !.ip = t3 + 2]
        ELSE client' = [client EXCEPT !.ip = t3 + 2]
  /\ UNCHANGED notClient

\* The characters the serializer of URLSearchParams leaves as they are
FormUnreserved ==
  Range(UpperSeq) \cup Range(LowerSeq) \cup DigitChars \cup {"*", "-", ".", "_"}

RECURSIVE FormEncode(_)
FormEncode(s) ==
  IF s = <<>> THEN <<>>
  ELSE (IF s[1] \in FormUnreserved THEN <<s[1]>>
        ELSE IF s[1] = " " THEN <<"+">>
        ELSE PercentEncode(s[1]))
         \o FormEncode(Tail(s))

\* searchParams.toString()
SearchParamsToString(searchParams) ==
  Join([k \in DOMAIN searchParams |->
          FormEncode(searchParams[k][1]) \o <<"=">> \o FormEncode(searchParams[k][2])],
       <<"&">>)

\* const queryString = searchParams.toString();
\* if (queryString) { url += `?${queryString}`; }
AppendQueryString ==
  /\ At("    const queryString = searchParams.toString();\n")
  /\ LET queryString == SearchParamsToString(client.searchParams) IN
       client' = [client EXCEPT
                    !.url = IF queryString # <<>> THEN @ \o <<"?">> \o queryString ELSE @,
                    !.ip = TokenFrom(client.text, client.ip, "    }\n") + 1]
  /\ UNCHANGED notClient

k_method == <<"m","e","t","h","o","d">>
k_headers == <<"h","e","a","d","e","r","s">>
k_body == <<"b","o","d","y">>
k_ContentType == <<"C","o","n","t","e","n","t","-","T","y","p","e">>

\* ...value in an object literal: the fields of an object, nothing for undefined
Spread(value) == IF value.kind = "object" THEN value.fields ELSE <<>>

\* headers?.[key]
OptionalGet(value, key) == IF value.kind = "object" THEN Get(value, key) ELSE Undefined

\* The entries of the headers literal from token i on, added to acc in source
\* order; threw when an entry reads a name the signature does not declare
RECURSIVE HeaderEntries(_, _, _, _)
HeaderEntries(text, i, scope, acc) ==
  IF text[i] = "      },\n" THEN [threw |-> FALSE, value |-> acc, next |-> i + 1]
  ELSE IF text[i] = "        'Content-Type': 'application/json',\n"
    THEN HeaderEntries(text, i + 1, scope, Merge(acc, k_ContentType :> Text(s_json)))
  ELSE IF text[i] = "        ...headers,\n"
    THEN IF ~Declared(scope, a_headers) THEN [threw |-> TRUE, value |-> acc, next |-> i]
         ELSE HeaderEntries(text, i + 1, scope, Merge(acc, Spread(scope[a_headers])))
  ELSE IF text[i] = "        '"
    THEN \* '<name>': headers?.['<name>'] || '',
         LET t1 == TokenFrom(text, i, "': headers?.['")
             t2 == TokenFrom(text, t1, "'] || '',\n")
             key == SubSeq(text, i + 1, t1 - 1)
             read == SubSeq(text, t1 + 1, t2 - 1)
         IN IF ~Declared(scope, a_headers) THEN [threw |-> TRUE, value |-> acc, next |-> i]
            ELSE LET given == OptionalGet(scope[a_headers], read) IN
                 HeaderEntries(text, t2 + 1, scope,
                               Merge(acc, key :> (IF Falsy(given) THEN Text(<<>>) ELSE given)))
  ELSE \* ...(headers?.['<name>'] ? { '<name>': headers['<name>'] } : {}),
       LET t1 == TokenFrom(text, i, "'] ? { '")
           t2 == TokenFrom(text, t1, "': headers['")
           t3 == TokenFrom(text, t2, "'] } : {}),\n")
           tested == SubSeq(text, i + 1, t1 - 1)
           key == SubSeq(text, t1 + 1, t2 - 1)
           read == SubSeq(text, t2 + 1, t3 - 1)
       IN IF ~Declared(scope, a_headers) THEN [threw |-> TRUE, value |-> acc, next |-> i]
          ELSE HeaderEntries(text, t3 + 1, scope,
                             IF Falsy(OptionalGet(scope[a_headers], tested)) THEN acc
                             ELSE Merge(acc, key :> Get(scope[a_headers], read)))

\* JSON.stringify(data), as a string value
Stringified(value) ==
  Text(IF value.kind = "object" THEN <<"{", "}">>
       ELSE IF value.kind = "string" THEN <<"\"">> \o value.text \o <<"\"">>
       ELSE value.text)

\* const fetchOptions: RequestInit = { method: '<METHOD>', ...options,
\*   headers: { ... }, body: JSON.stringify(data) };
PrepareFetchOptions ==
  /\ At("    const fetchOptions: RequestInit = {\n")
  /\ LET text == client.text
         scope == client.scope
         t1 == TokenFrom(text, client.ip, "',\n")
         method == k_method :> Text(SubSeq(text, client.ip + 2, t1 - 1))
         spread == IF text[t1 + 1] = "      ...options,\n"
                   THEN Merge(method, Spread(scope[a_options])) ELSE method
         headers == HeaderEntries(text, TokenFrom(text, t1, "      headers: {\n") + 1,
                                  scope, <<>>)
         withHeaders == Merge(spread, k_headers :> Object(headers.value))
         hasBody == text[headers.next] = "      body: JSON.stringify(data),\n"
     IN IF ~Declared(scope, a_options) \/ headers.threw THEN Throw("ReferenceError")
        ELSE IF hasBody /\ ~Declared(scope, a_data) THEN Throw("ReferenceError")
        ELSE client' =
               [client EXCEPT
                  !.fetchOptions =
                    Object(IF hasBody
                           THEN Merge(withHeaders, k_body :> Stringified(scope[a_data]))
                           ELSE withHeaders),
                  !.ip = TokenFrom(text, headers.next, "    };\n\n") + 1]
  /\ UNCHANGED notClient

\* const response = await fetch(url, fetchOptions);
Fetch ==
  /\ At("    const response = await fetch(url, fetchOptions);\n")
  /\ client' = [client EXCEPT !.sent = <<[url |-> client.url, options |-> client.fetchOptions]>>,
                              !.ip = @ + 1]
  /\ UNCHANGED notClient

\* The rest of the body, on the response of the server: an error when the
\* status is not ok, the decoded JSON when the content type names JSON, the
\* text otherwise
HandleResponse ==
  /\ At("    const contentType = response.headers.get('Content-Type') || '';\n\n")
  /\ \E ok \in BOOLEAN, json \in BOOLEAN :
       client' = [client EXCEPT
                    !.outcome = IF ~ok THEN "Error" ELSE IF json THEN "json" ELSE "text",
                    !.ip = Len(client.text)]
  /\ UNCHANGED notClient

\* The calls of generated methods: endpoints, base URLs and arguments
p_petsIdCopyId ==
  <<"/","p","e","t","s","/","{","i","d","}","/","c","o","p","y","/","{","i","d","}">>
p_petsIdKind == <<"/","p","e","t","s","/","{","i","d","}","/","{","k","i","n","d","}">>
n_xTrace == <<"X","-","T","r","a","c","e">>
b_braces == <<"/","{","i","d","}">>

ClientPaths == { p_pets, p_petsId, p_petsIdCopyId, p_petsIdKind }

ClientParameterLists ==
  { <<>>,
    <<<<Param(n_id, s_path, TRUE, <<Int64>>)>>>>,
    <<<<Param(n_id, s_path, TRUE, <<>>), Param(n_kind, s_path, TRUE, <<>>)>>>>,
    <<<<Param(n_q, s_query, FALSE, <<Scalar(s_string, <<>>)>>),
        Param(n_name, s_query, TRUE, <<>>)>>>>,
    <<<<Param(n_xKey, s_header, TRUE, <<>>), Param(n_xTrace, s_header, FALSE, <<>>)>>>>,
    <<<<Param(n_id, s_path, TRUE, <<>>), Param(n_q, s_query, FALSE, <<>>),
        Param(n_xKey, s_header, TRUE, <<Scalar(s_string, <<>>)>>)>>>> }

\* The IR endpoints the generated methods are made from
ClientEndpoints ==
  { parseEndpoint(path, s_get,
                  [NoOperation EXCEPT !.operationId = <<o_listPets>>,
                                      !.parameters = ps, !.requestBody = body]) :
      path \in ClientPaths, ps \in ClientParameterLists, body \in {<<>>, <<JsonBody>>} }

BaseUrls == { <<>>, s_url, b_braces }

PathArguments == { Text(<<"a","/","b"," ","c">>), Number(<<"7">>) }

QueryValues == { Undefined, Text(<<>>), Number(<<"0">>), False, Text(<<"x">>) }

\* The query records over the declared query parameters: each field absent,
\* undefined or defined
QueryArguments(endpoint) ==
  LET names == { p.name : p \in Range(ParamsIn(endpoint, s_query)) } IN
  { Object(fields) : fields \in UNION { [S -> QueryValues] : S \in SUBSET names } }

HeaderArguments ==
  { Undefined,
    Object(<<>>),
    Object(n_xKey :> Text(<<"k">>)),
    Object(n_xKey :> Text(<<>>)),
    Object(k_ContentType :> Text(<<"t","e","x","t","/","p","l","a","i","n">>)),
    Object(n_xKey :> Text(<<"k">>) @@ n_xTrace :> Text(<<"t">>)) }

OptionArguments ==
  { Undefined,
    Object(k_headers :> Object(n_xKey :> Text(<<"o">>))),
    Object(k_method :> Text(s_head)) }

DataArguments == { Object(<<>>) }

\* The arguments a caller passes for the parameters the signature declares
ClientScopes(endpoint, text) ==
  LET names == Range(SignatureNames(text))
      fixed == { a_queryParams, a_data, a_headers, a_options }
  IN { [n \in names |->
          IF n = a_queryParams THEN q
          ELSE IF n = a_data THEN d
          ELSE IF n = a_headers THEN h
          ELSE IF n = a_options THEN o
          ELSE ps[n]] :
        q \in QueryArguments(endpoint), d \in DataArguments, h \in HeaderArguments,
        o \in OptionArguments, ps \in [names \ fixed -> PathArguments] }

\* The calls of the method generated for an endpoint
ClientCalls(endpoint) ==
  LET text == generateEndpointMethod(endpoint) IN
  { Call(endpoint, text, baseUrl, scope) : baseUrl \in BaseUrls,
                                           scope \in ClientScopes(endpoint, text) }

NextClient ==
  \/ LetUrl
  \/ Comment
  \/ ReplacePathParameter
  \/ NewSearchParams
  \/ AppendQueryParameter
  \/ AppendQueryString
  \/ PrepareFetchOptions
  \/ Fetch
  \/ HandleResponse

InitClient ==
  /\ InitGenerator({<<>>})
  /\ \E endpoint \in ClientEndpoints : client \in ClientCalls(endpoint)
  /\ command = <<>>
  /\ request = <<>>
  /\ pure = <<>>

\* Calls of generated client methods
SpecClient == InitClient /\ [][NextClient]_vars

-----------------------------------------------------------------------------
(* Properties *)

\* The structural, alias and enumerated sequences of an accumulator
SchemaLists3(td) == <<td.interfaces, td.types, td.enums>>

\* C1: a second call of the resolver on a node whose first call emitted a
\* declaration returns the name the first call returned and leaves the
\* structural, alias and enumerated sequences as they were.
C1_ResolveTwiceIdempotent ==
  (last # <<>> /\ last[1].repeat /\ returned[last[1].k].via = "emitted")
    => /\ last[1].name = returned[last[1].k].name
       /\ SchemaLists3(last[1].after) = SchemaLists3(last[1].before)

\* C2: no two declarations of the structural, alias and enumerated sequences
\* share a name, and a resolver call on a node whose sanitized name is already
\* declared returns that name and appends nothing.
C2_NoDuplicateNames ==
  /\ LET all == SchemaDeclarations(typeDefinitions) IN
       \A i \in DOMAIN all : \A j \in DOMAIN all : i # j => all[i].name # all[j].name
  /\ (last # <<>> /\ ~Truthy(last[1].schema.reference)
        /\ \E d \in Range(SchemaDeclarations(last[1].before)) :
              d.name = sanitizeTypeName(last[1].schema.name))
       => /\ last[1].name = sanitizeTypeName(last[1].schema.name)
          /\ SchemaLists3(last[1].after) = SchemaLists3(last[1].before)

\* Entry i of the log of td has a declaration of name n before it
DeclaredBefore(td, i, n) == \E j \in 1..(i - 1) : td.log[j].name = n

\* C3 (as claimed): at the end of a call, every dependency name of every
\* declaration is the name of a declaration appended earlier.
C3_DependenciesPrecede ==
  \A r \in Range(results) :
    ~r.threw =>
      \A i \in DOMAIN r.typeDefinitions.log :
        \A n \in Range(r.typeDefinitions.log[i].dependencies) :
          DeclaredBefore(r.typeDefinitions, i, n)

\* C3 (amended): at the end of a call, every dependency name that the resolver
\* returned for an inline (non-reference) child which emitted a declaration, or
\* found one under its name, is the name of a declaration appended earlier.
C3_InlineChildrenPrecede ==
  \A r \in Range(results) :
    ~r.threw =>
      \A i \in DOMAIN r.typeDefinitions.log :
        LET e == r.typeDefinitions.log[i] IN
        \A k \in DOMAIN e.dependencies :
          e.depVia[k] \in {"emitted", "existing"}
            => DeclaredBefore(r.typeDefinitions, i, e.dependencies[k])

C3_Witness ==
  \E r \in Range(results) :
    /\ ~r.threw
    /\ \E i \in DOMAIN r.typeDefinitions.log :
         LET e == r.typeDefinitions.log[i] IN
         /\ \E k \in DOMAIN e.depVia : e.depVia[k] = "emitted"
         /\ \E k \in DOMAIN e.depVia : e.depVia[k] = "reference"


\* The four sequences of an accumulator
Declarations(td) == <<td.interfaces, td.types, td.enums, td.apiClasses>>

\* The members of the composition of the one top-level schema of a result
ComposedMembers(r) ==
  LET schema == r.parsedSpec[1].components.schemas[1].schema IN
  IF schema.oneOf # <<>> THEN schema.oneOf[1] ELSE schema.anyOf[1]

\* C4 (as claimed): a oneOf schema and the anyOf schema of the same name over
\* the same two members, each resolved in a call of its own, give the same
\* declarations: names, text and dependency names.
C4_OneOfAnyOfIdentical ==
  Len(results) = 2
    => Declarations(results[1].typeDefinitions) = Declarations(results[2].typeDefinitions)

\* C4 (amended): they give the same declarations when neither member emits a
\* declaration of its own, that is when each is a reference or resolves to a
\* scalar.
C4_PlainMembersIdentical ==
  (Len(results) = 2
     /\ \A m \in Range(ComposedMembers(results[1])) : ~EmitsDeclaration(m))
    => Declarations(results[1].typeDefinitions) = Declarations(results[2].typeDefinitions)

C4_Witness ==
  /\ Len(results) = 2
  /\ \A m \in Range(ComposedMembers(results[1])) : ~EmitsDeclaration(m)
  /\ \E m \in Range(ComposedMembers(results[1])) : Truthy(m.reference)
  /\ Len(results[1].typeDefinitions.types) = 1
  /\ Len(results[1].typeDefinitions.types[1].dependencies) > 0

\* C5: a resolver call on a schema with a non-empty enum (no reference, no
\* declaration under its name yet) appends exactly one declaration: to the
\* enumerated sequence, with one member per value, when every value is a
\* string; otherwise to the alias sequence, as the union of the literals, and
\* nothing to the enumerated sequence.
C5_EnumDuality ==
  (last # <<>> /\ ~Truthy(last[1].schema.reference)
     /\ NonEmptyList(last[1].schema.enum)
     /\ ~Truthy(findExistingType(last[1].schema.name, last[1].before)))
    => LET before == last[1].before
           after == last[1].after
           name == sanitizeTypeName(last[1].schema.name)
           values == last[1].schema.enum[1]
       IN /\ after.interfaces = before.interfaces
          /\ IF \A k \in DOMAIN values : IsStringValue(values[k])
             THEN /\ after.types = before.types
                  /\ after.enums =
                       Append(before.enums,
                              [name |-> name,
                               content |-> <<"export enum ">> \o name \o <<" {\n">>
                                             \o EnumMembers(values) \o <<"}">>,
                               dependencies |-> <<>>])
             ELSE /\ after.enums = before.enums
                  /\ after.types =
                       Append(before.types,
                              [name |-> name,
                               content |-> <<"export type ">> \o name \o <<" = ">>
                                 \o Join([k \in DOMAIN values |-> JsonStringify(values[k])],
                                         <<" | ">>) \o <<";">>,
                               dependencies |-> <<>>])

\* sub occurs in text as a run of consecutive tokens
Contains(text, sub) ==
  \E i \in 1..(Len(text) - Len(sub) + 1) : SubSeq(text, i, i + Len(sub) - 1) = sub

\* The tags an endpoint is to be grouped under
TagsOf(endpoint) == IF endpoint.tags = <<>> THEN {s_default} ELSE Range(endpoint.tags)

\* The call that finished last
LastResult == results[Len(results)]

\* C6: after a call, every endpoint of the IR has its method in the client
\* declaration of each of its tags (of 'default' when it has none) and in no
\* other client declaration, hence in at least one.
C6_TagGrouping ==
  (pc = "idle" /\ results # <<>> /\ LastResult.parsedSpec # <<>>)
    => /\ ~LastResult.threw
       /\ \A e \in Range(AllEndpoints(LastResult.parsedSpec[1].paths)) :
            /\ \A c \in Range(LastResult.typeDefinitions.apiClasses) :
                 Contains(c.content, generateEndpointMethod(e))
                   <=> \E t \in TagsOf(e) : c.name = ApiClassName(t)
            /\ \E c \in Range(LastResult.typeDefinitions.apiClasses) :
                 Contains(c.content, generateEndpointMethod(e))

\* The name the schema resolver returns for the schema of a parameter
ResolverTypeName(p, td) == processSchema(p.schema[1], td).name

\* C10: in every generated method, the type of a path parameter and of a field
\* of the query-parameter record is the name the schema resolver returns for
\* the schema of that parameter.
C10_ParameterTypesFromResolver ==
  (pc = "idle" /\ results # <<>> /\ ~LastResult.threw)
    => \A e \in Range(AllEndpoints(LastResult.parsedSpec[1].paths)) :
         \A c \in Range(LastResult.typeDefinitions.apiClasses) :
           (\E t \in TagsOf(e) : c.name = ApiClassName(t))
             => /\ \A p \in Range(ParamsIn(e, s_path)) :
                     p.schema # <<>>
                       => /\ pathParamTsType(p)
                               = ResolverTypeName(p, LastResult.typeDefinitions)
                          /\ Contains(c.content, PathParamText(p))
                /\ \A p \in Range(ParamsIn(e, s_query)) :
                     p.schema # <<>>
                       => /\ queryParamTsType(p)
                               = ResolverTypeName(p, LastResult.typeDefinitions)
                          /\ Contains(c.content, QueryParamText(p))


\* C7: the Swagger 2.0 document and the equivalent OpenAPI 3.x document
\* normalize to the same IR and generate the same declarations.
C7_DialectsEquivalent ==
  Len(results) = 2
    => /\ results[1].parsedSpec = results[2].parsedSpec
       /\ Declarations(results[1].typeDefinitions)
            = Declarations(results[2].typeDefinitions)

\* The names of a schema node and of the nodes below it
RECURSIVE NodeNames(_)
NodeNames(schema) ==
  {schema.name}
    \cup UNION { NodeNames(schema.properties[k].schema) : k \in DOMAIN schema.properties }
    \cup UNION { NodeNames(m) : m \in Range(schema.items) }
    \cup UNION { NodeNames(m) :
                   m \in UNION { Range(l) :
                                   l \in Range(schema.allOf) \cup Range(schema.oneOf)
                                           \cup Range(schema.anyOf) } }

\* The declaration names that can come from a document's own IR
OwnNames(spec) ==
  { sanitizeTypeName(n) :
      n \in UNION { NodeNames(spec.components.schemas[k].schema) :
                      k \in DOMAIN spec.components.schemas } }
    \cup { ApiClassName(t) : t \in UNION { TagsOf(e) : e \in Range(AllEndpoints(spec.paths)) } }

AllDeclarations(td) == td.interfaces \o td.types \o td.enums \o td.apiClasses

\* C8: every call starts from an empty accumulator; two calls on the same
\* document return the same result whatever was generated between them; and a
\* result holds no declaration whose name does not come from its own document.
C8_CallsIndependent ==
  /\ (pc = "schemas" /\ idx = 1) => AllDeclarations(typeDefinitions) = <<>>
  /\ \A i \in DOMAIN results : \A j \in DOMAIN results :
       results[i].raw = results[j].raw => results[i] = results[j]
  /\ \A i \in DOMAIN results :
       ~results[i].threw =>
         \A d \in Range(AllDeclarations(results[i].typeDefinitions)) :
           d.name \in OwnNames(results[i].parsedSpec[1])

C8_Witness ==
  /\ Len(results) = 3
  /\ results[1].raw = results[3].raw
  /\ results[2].raw # results[1].raw
  /\ \A i \in 1..3 : /\ ~results[i].threw
                     /\ results[i].typeDefinitions.interfaces # <<>>
                     /\ results[i].typeDefinitions.apiClasses # <<>>

\* C9: a document with any subset of its optional fields absent is normalized
\* and generated from without an error: the call returns its IR and its
\* declarations, with the info fields defaulting to "API", "1.0.0" and "" and
\* the servers to the empty sequence.
C9_OptionalFieldsNeverFail ==
  /\ \A r \in Range(results) :
       /\ ~r.threw
       /\ r.parsedSpec # <<>>
       /\ LET info == r.parsedSpec[1].info IN
            /\ (r.raw.info = <<>> \/ r.raw.info[1].title = <<>>) => info.title = s_API
            /\ (r.raw.info = <<>> \/ r.raw.info[1].version = <<>>) => info.version = s_version
            /\ (r.raw.info = <<>> \/ r.raw.info[1].description = <<>>)
                 => info.description = <<>>
       /\ r.raw.servers = <<>> => r.parsedSpec[1].servers = <<>>
  /\ (pc = "idle" /\ pending = <<>>) => Len(results) = 1

C9_Witness ==
  /\ Len(results) = 1
  /\ ~results[1].threw
  /\ results[1].raw.info = <<>>
  /\ results[1].raw.servers = <<>>
  /\ results[1].raw.components = <<>>
  /\ results[1].raw.definitions = <<>>
  /\ results[1].raw.paths # <<>>
  /\ results[1].raw.paths[1][1].item[1].operation = NoOperation
  /\ Len(results[1].typeDefinitions.apiClasses) = 1

\* The path parameters the endpoint of the call declares
PathParameterNames == { p.name : p \in Range(ParamsIn(client.endpoint, s_path)) }

\* The greatest index of token in text, 0 when there is none
LastToken(text, token) ==
  LET at == { j \in DOMAIN text : text[j] = token }
  IN IF at = {} THEN 0 ELSE CHOOSE j \in at : \A k \in at : k <= j

\* The call is past the statements that substitute the path parameters
PathSubstituted ==
  /\ client # <<>>
  /\ client.ip > TokenFrom(client.text, 1, "';\n")
  /\ client.ip > LastToken(client.text, ")));\n")

\* C11: in a call whose base URL holds no brace, once the path parameters are
\* substituted the URL holds no {name} token of a declared path parameter.
C11_NoPathTokenLeft ==
  (PathSubstituted /\ "{" \notin Range(client.baseUrl))
    => \A name \in PathParameterNames :
         IndexOf(client.url, <<"{">> \o name \o <<"}">>) = 0

\* The headers of the request the call sent
SentHeaders == Get(client.sent[1].options, k_headers).fields

\* The headers the caller supplied through the header record
RecordHeaders ==
  IF Declared(client.scope, a_headers) THEN Spread(client.scope[a_headers]) ELSE <<>>

\* The headers the caller supplied through the transport options
OptionHeaders == Spread(OptionalGet(client.scope[a_options], k_headers))

\* The header parameters the endpoint of the call declares
HeaderParameters == Range(ParamsIn(client.endpoint, s_header))

\* C12: in a request a generated method sends, a header the caller supplied
\* through the header record or through the transport options has the
\* caller's value (the header record first); a declared header the caller
\* did not supply is empty text when required and absent when optional; and
\* Content-Type is application/json unless the caller supplied it.
C12_HeaderPrecedence ==
  (client # <<>> /\ client.sent # <<>>)
    => LET supplied == Merge(OptionHeaders, RecordHeaders) IN
       /\ \A k \in DOMAIN supplied : k \in DOMAIN SentHeaders /\ SentHeaders[k] = supplied[k]
       /\ \A p \in HeaderParameters :
            p.name \notin DOMAIN supplied
              => IF p.required
                 THEN p.name \in DOMAIN SentHeaders /\ SentHeaders[p.name] = Text(<<>>)
                 ELSE p.name \notin DOMAIN SentHeaders
       /\ k_ContentType \notin DOMAIN supplied
            => k_ContentType \in DOMAIN SentHeaders
               /\ SentHeaders[k_ContentType] = Text(s_json)

\* The query parameters the endpoint of the call declares
QueryParameterNames == { p.name : p \in Range(ParamsIn(client.endpoint, s_query)) }

\* The call is past the statements that build the query string
QueryAppended ==
  /\ client # <<>>
  /\ QueryParameterNames # {}
  /\ client.ip > TokenFrom(client.text, 1, "    const queryString = searchParams.toString();\n")

\* The argument the caller passed for a query parameter
QueryArgument(name) == Get(client.scope[a_queryParams], name)

-----------------------------------------------------------------------------
(* The scalar mapping: toTsType on a type and a format, and the resolver on   *)
(* the schema that carries them                                               *)

s_Integer == <<"I","n","t","e","g","e","r">>
s_file == <<"f","i","l","e">>

\* The types and formats of the scalar schemas, <<>> for an absent one
ScalarTypes ==
  { <<>>, s_integer, s_number, s_string, s_boolean, s_array, s_object, s_Integer,
    s_file, s_enum }

ScalarFormats == { <<>>, s_int64, s_int32, s_date, s_dateTime, s_binary }

InitScalar ==
  /\ InitGenerator({<<>>})
  /\ client = <<>>
  /\ command = <<>>
  /\ request = <<>>
  /\ \E type \in ScalarTypes, format \in ScalarFormats :
       pure = [type |-> type, format |-> format, applied |-> <<>>, resolved |-> <<>>]

\* toTsType(type, format)
ApplyToTsType ==
  /\ pure # <<>>
  /\ pure.applied = <<>>
  /\ pure' = [pure EXCEPT !.applied = <<toTsType(pure.type, pure.format)>>]
  /\ UNCHANGED <<generatorVars, client, command, request>>

\* processSchema on the parsed schema { type, format } named Pet, in a fresh
\* accumulator
ResolveScalar ==
  /\ pure # <<>>
  /\ pure.resolved = <<>>
  /\ LET schema == parseSchema(Scalar(pure.type, pure.format), n_Pet)
         r == processSchema(schema, EmptyTypeDefinitions)
     IN pure' = [pure EXCEPT !.resolved = <<[schema |-> schema, name |-> r.name,
                                              td |-> r.td]>>]
  /\ UNCHANGED <<generatorVars, client, command, request>>

NextScalar == ApplyToTsType \/ ResolveScalar

SpecScalar == InitScalar /\ [][NextScalar]_vars

\* The table of the claim, but for the type that is not given
ScalarTable(type, format) ==
  LET t == toLowerCase(type) IN
  IF t \in {s_integer, s_number} THEN (IF format = s_int64 THEN s_bigint ELSE s_number)
  ELSE IF t = s_string /\ format \in {s_date, s_dateTime} THEN s_Date
  ELSE IF t = s_string /\ format = s_binary THEN s_Blob
  ELSE IF t = s_string THEN s_string
  ELSE IF t = s_boolean THEN s_boolean
  ELSE IF t = s_array THEN s_anyArr
  ELSE s_Record

\* The resolver fell through to the scalar mapping
FallsThrough(schema) == ~Truthy(schema.reference) /\ ~EmitsDeclaration(schema)

\* What both readings of the claim say of the resolver: a schema that matches
\* none of the enum, object, array and composition cases resolves to
\* toTsType of its type and format and appends nothing
ResolvesToMapping ==
  (pure # <<>> /\ pure.resolved # <<>> /\ FallsThrough(pure.resolved[1].schema))
    => /\ pure.resolved[1].name
            = toTsType(pure.resolved[1].schema.type, pure.resolved[1].schema.format)
       /\ pure.resolved[1].td = EmptyTypeDefinitions

-----------------------------------------------------------------------------
(* fetcher.ts: fetchFromUrl, its callbacks and its promise                    *)

\* The status code of a response that is read (line 31)
HttpOk == 200

StatusCodes == { HttpOk, 301, 404 }

\* JSON texts, in the pieces a chunk boundary may fall between
j_empty == <<"{}">>
j_null == <<"null">>
j_pets == <<"{\"components\":{\"schemas\":{\"Pet\":{\"type\":\"object\"}}},",
            "\"paths\":{\"/pets\":{\"get\":{\"tags\":[\"A\"]}}}}">>
j_constructor == <<"{\"paths\":{\"/pets\":{\"get\":{\"tags\":[\"constructor\"]}}}}">>
j_truncated == <<"{\"paths\":">>

\* JSON.parse(data): the document of a text, a SyntaxError for any other text
JsonParse(data) ==
  IF data = j_empty THEN Returned(NoDocument)
  ELSE IF data = j_null THEN Returned(NullDocument)
  ELSE IF data = j_pets
    THEN Returned(Document(<<Prop(n_Pet, ObjectOf(s_object, <<>>, <<>>))>>,
                           <<PathEntry(p_pets, s_get,
                                       [NoOperation EXCEPT !.tags = <<<<t_A>>>>])>>))
  ELSE IF data = j_constructor
    THEN Returned([NoDocument EXCEPT
                     !.paths = <<<<PathEntry(p_pets, s_get,
                                    [NoOperation EXCEPT !.tags = <<<<s_constructor>>>>])>>>>])
  ELSE Thrown

\* The bodies a server sends, as the chunks that arrive
Bodies ==
  { <<>>, <<j_empty>>, <<j_null>>, <<j_pets>>, <<<<j_pets[1]>>, <<j_pets[2]>>>>,
    <<j_constructor>>, <<j_truncated>>, <<<<"{">>, <<"}">>>> }

\* new Promise(...): client.get has sent the request (lines 29-30, 61)
NewRequest(url) ==
  [url |-> url, status |-> "sent", listening |-> FALSE, incoming |-> <<>>,
   data |-> <<>>, promise |-> "pending", value |-> <<>>, calls |-> 0]

\* new Error(message)
Error(message) == [message |-> message]

\* resolve(value) or reject(error): the first call settles the promise, a
\* later call changes nothing
Settle(r, state, value) ==
  IF r.promise = "pending"
  THEN [r EXCEPT !.promise = state, !.value = <<value>>, !.calls = @ + 1]
  ELSE [r EXCEPT !.calls = @ + 1]

\* The callback of res.on('end'), lines 43-52
EndCallback(r) ==
  LET parsed == JsonParse(r.data) IN
  IF parsed.threw THEN Settle(r, "rejected", Error("Failed to parse Swagger spec"))
  ELSE Settle(r, "resolved", parsed.value)

\* The callback of client.get, lines 30-53, on the response of the server
OnResponse ==
  /\ request # <<>>
  /\ request.status = "sent"
  /\ \E statusCode \in StatusCodes, body \in Bodies :
       IF statusCode # HttpOk
       THEN request' = [Settle(request, "rejected", Error("Failed to fetch Swagger spec: HTTP"))
                          EXCEPT !.status = "response", !.incoming = body]
       ELSE request' = [request EXCEPT !.status = "response", !.listening = TRUE,
                                       !.incoming = body]
  /\ UNCHANGED <<generatorVars, client, command, pure>>

\* The callback of res.on('data'), lines 39-41
OnData ==
  /\ request # <<>>
  /\ request.status = "response" /\ request.listening
  /\ request.incoming # <<>>
  /\ request' = [request EXCEPT !.data = @ \o Head(request.incoming),
                                  !.incoming = Tail(@)]
  /\ UNCHANGED <<generatorVars, client, command, pure>>

\* The response ended: res emits 'end'
OnEnd ==
  /\ request # <<>>
  /\ request.status = "response" /\ request.listening
  /\ request.incoming = <<>>
  /\ request' = [EndCallback(request) EXCEPT !.status = "ended"]
  /\ UNCHANGED <<generatorVars, client, command, pure>>

\* The callback of req.on('error'), lines 55-59: the socket failed, before the
\* response or while it arrives
OnRequestError ==
  /\ request # <<>>
  /\ request.status \in {"sent", "response"}
  /\ request' = [Settle(request, "rejected", Error("Failed to fetch Swagger spec"))
                    EXCEPT !.status = "error"]
  /\ UNCHANGED <<generatorVars, client, command, pure>>

\* The connection closed before the response was complete: res emits
\* 'aborted', which has no listener; whether 'end' follows depends on the
\* version of the runtime
OnAborted ==
  /\ request # <<>>
  /\ request.status = "response" /\ request.listening
  /\ request.incoming # <<>>
  /\ \/ request' = [request EXCEPT !.status = "aborted"]
     \/ request' = [EndCallback(request) EXCEPT !.status = "ended"]
  /\ UNCHANGED <<generatorVars, client, command, pure>>

NextFetch == OnResponse \/ OnData \/ OnEnd \/ OnRequestError \/ OnAborted

u_http == <<"h","t","t","p",":","/","/","x">>
u_https == <<"h","t","t","p","s",":","/","/","x">>

InitFetch ==
  /\ InitGenerator({<<>>})
  /\ client = <<>>
  /\ command = <<>>
  /\ pure = <<>>
  /\ request \in { NewRequest(u_http), NewRequest(u_https) }

\* A download: the transport goes on until the response has ended, failed or
\* closed
SpecFetch == InitFetch /\ [][NextFetch]_vars /\ WF_vars(NextFetch)

-----------------------------------------------------------------------------
(* The command: main, with fetchSwaggerSpec, parseSwaggerSpec,                *)
(* generateTypeDefinitions and writeTypesToFile                               *)

u_file == <<".","/","a","p","i",".","j","s","o","n">>

\* urlOrPath.startsWith('http://') || urlOrPath.startsWith('https://')
IsUrl(urlOrPath) ==
  \/ SubSeq(urlOrPath, 1, 7) = <<"h","t","t","p",":","/","/">>
  \/ SubSeq(urlOrPath, 1, 8) = <<"h","t","t","p","s",":","/","/">>

\* The steps of main, in the order of its statements
Steps == <<"acquisition", "normalization", "generation", "writing">>

\* main is entered with process.argv[2]
NewCommand(urlOrPath) ==
  [url |-> urlOrPath, step |-> "start", log |-> <<>>, failed |-> <<>>,
   stderr |-> <<>>, written |-> FALSE, exit |-> <<>>]

\* The catch block of main, lines 27-33: step is the step that failed
Catch(c, step) ==
  [c EXCEPT !.step = "exited", !.failed = <<step>>,
            !.stderr = Append(@, "Error generating API types:"), !.exit = <<1>>]

\* main hands the document to parseSwaggerSpec, line 17
Normalize(c) == [c EXCEPT !.step = "generating", !.log = Append(@, "normalization")]

\* await fetchSwaggerSpec(url), line 13: a URL goes to fetchFromUrl
StartAcquisition ==
  /\ command # <<>>
  /\ command.step = "start"
  /\ IF IsUrl(command.url)
     THEN /\ request' = NewRequest(command.url)
          /\ command' = [command EXCEPT !.step = "fetching", !.log = Append(@, "acquisition")]
     ELSE /\ request' = request
          /\ command' = [command EXCEPT !.step = "reading", !.log = Append(@, "acquisition")]
  /\ UNCHANGED <<generatorVars, client, pure>>

\* fetchFromFile, lines 70-88: the file cannot be read, or holds a text
ReadFile ==
  /\ command # <<>>
  /\ command.step = "reading"
  /\ \/ /\ command' = Catch(command, "acquisition")
        /\ pending' = pending
     \/ \E data \in { j_empty, j_pets, j_truncated, j_null } :
          LET parsed == JsonParse(data) IN
          IF parsed.threw
          THEN command' = Catch(command, "acquisition") /\ pending' = pending
          ELSE command' = Normalize(command) /\ pending' = <<parsed.value>>
  /\ UNCHANGED <<raw, pc, parsedSpec, idx, typeDefinitions, endpointsByTag, tagIdx,
                 results, returned, last, again, client, request, pure>>

\* The promise of fetchFromUrl has settled: main goes on, or catches
FetchSettled ==
  /\ command # <<>>
  /\ command.step = "fetching"
  /\ request.promise # "pending"
  /\ IF request.promise = "rejected"
     THEN command' = Catch(command, "acquisition") /\ pending' = pending
     ELSE command' = Normalize(command) /\ pending' = <<request.value[1]>>
  /\ UNCHANGED <<raw, pc, parsedSpec, idx, typeDefinitions, endpointsByTag, tagIdx,
                 results, returned, last, again, client, request, pure>>

\* The promise of fetchFromUrl is pending and nothing is left that could
\* settle it: the runtime has no work left and the process ends, with the
\* exit code 0 of a process that nothing failed in
LoopDrained ==
  /\ command # <<>>
  /\ command.step = "fetching"
  /\ request.promise = "pending" /\ request.status = "aborted"
  /\ command' = [command EXCEPT !.step = "exited", !.failed = <<"acquisition">>,
                                  !.exit = <<0>>]
  /\ UNCHANGED <<generatorVars, client, request, pure>>

\* parseSwaggerSpec and generateTypeDefinitions have returned or thrown,
\* lines 17-20
GeneratorReturned ==
  /\ command # <<>>
  /\ command.step = "generating"
  /\ pc = "idle" /\ pending = <<>> /\ results # <<>>
  /\ LET r == results[Len(results)] IN
       IF r.threw /\ r.parsedSpec = <<>>
       THEN command' = Catch(command, "normalization")
       ELSE IF r.threw
         THEN command' = Catch([command EXCEPT !.log = Append(@, "generation")],
                               "generation")
       ELSE command' = [command EXCEPT !.step = "writing",
                                       !.log = @ \o <<"generation", "writing">>]
  /\ UNCHANGED <<generatorVars, client, request, pure>>

\* await writeTypesToFile(typeDefinitions, outputPath), line 24: the file is
\* written, or the write fails
WriteTypes ==
  /\ command # <<>>
  /\ command.step = "writing"
  /\ \/ command' = [command EXCEPT !.step = "done", !.written = TRUE]
     \/ command' = Catch(command, "writing")
  /\ UNCHANGED <<generatorVars, client, request, pure>>

\* main returns after console.log('Done!'), line 26, and the process ends
Done ==
  /\ command # <<>>
  /\ command.step = "done"
  /\ command' = [command EXCEPT !.step = "exited", !.exit = <<0>>]
  /\ UNCHANGED <<generatorVars, client, request, pure>>

NextCommand ==
  \/ StartAcquisition
  \/ ReadFile
  \/ FetchSettled
  \/ LoopDrained
  \/ GeneratorReturned
  \/ WriteTypes
  \/ Done
  \/ (command # <<>> /\ command.step = "fetching" /\ NextFetch)
  \/ (command # <<>> /\ command.step = "generating" /\ Next)

InitCommand ==
  /\ InitGenerator({<<>>})
  /\ client = <<>>
  /\ request = <<>>
  /\ pure = <<>>
  /\ command \in { NewCommand(u_http), NewCommand(u_https), NewCommand(u_file) }

\* A run of the command
SpecCommand == InitCommand /\ [][NextCommand]_vars

\* The steps that ran are the first steps of main, in its order
RanInOrder == command.log = SubSeq(Steps, 1, Len(command.log))

\* C15: the steps run in the order acquisition, normalization, generation,
\* writing; when a step has failed the process has exited with code 1 and a
\* message on the error stream, and no later step has run; a process that
\* exited with code 0 has run the four steps and written the file.
C15_StepsInOrderExitCodes ==
  command # <<>>
    => /\ RanInOrder
       /\ command.failed # <<>>
            => /\ command.exit = <<1>>
               /\ command.stderr # <<>>
               /\ command.log[Len(command.log)] = command.failed[1]
               /\ ~command.written
       /\ command.exit = <<0>>
            => /\ command.log = Steps
               /\ command.written
               /\ command.failed = <<>>

-----------------------------------------------------------------------------
(* A raw schema that is a composition and nothing else                        *)

\* The raw schema carries a non-empty composition list and no $ref, type, enum
\* or properties
CompositionOnly(schema) ==
  /\ schema.ref = <<>>
  /\ schema.type = <<>>
  /\ schema.enum = <<>>
  /\ Len(schema.properties) = 0
  /\ \/ NonEmptyList(schema.allOf)
     \/ NonEmptyList(schema.oneOf)
     \/ NonEmptyList(schema.anyOf)

\* The composition list the resolver looks at first, and how it joins
CompositionOf(schema) ==
  IF NonEmptyList(schema.allOf) THEN [members |-> schema.allOf[1], joiner |-> <<" & ">>]
  ELSE IF NonEmptyList(schema.oneOf) THEN [members |-> schema.oneOf[1], joiner |-> <<" | ">>]
  ELSE [members |-> schema.anyOf[1], joiner |-> <<" | ">>]

\* The alias text that combines the member types of a parsed schema, each
\* member resolved in turn from the accumulator td
AliasOfMembers(schema, td) ==
  LET c == CompositionOf(schema)
      st == processComponents(c.members, 1, ComposeStart(td))
  IN <<"export type ">> \o sanitizeTypeName(schema.name) \o <<" = ">>
       \o Join(st.componentTypes, c.joiner) \o <<";">>

\* The resolver has just been called, for the first time, on the top-level
\* schema whose raw form is a composition and nothing else, and no declaration
\* had its name
ResolvedCompositionOnly ==
  /\ last # <<>>
  /\ ~last[1].repeat
  /\ raw # <<>>
  /\ CompositionOnly(RawSchemas(raw[1])[last[1].k].schema)
  /\ findExistingType(last[1].schema.name, last[1].before) = <<>>

\* C16: a raw schema with a non-empty composition list and no type, enum or
\* properties gives, after parseSwaggerSpec and the resolver, one alias
\* declaration that joins its member types in source order (" & " for allOf,
\* " | " for oneOf and anyOf), and no structural declaration of its name.
C16_CompositionOnlyAlias ==
  ResolvedCompositionOnly
    => LET name == sanitizeTypeName(last[1].schema.name)
           alias == AliasOfMembers(last[1].schema, last[1].before)
       IN /\ \E d \in Range(last[1].after.types) :
               d.name = name /\ d.content = alias
          /\ \A d \in Range(last[1].after.interfaces) : d.name # name

-----------------------------------------------------------------------------
(* Dependencies and the scalar mapping                                        *)

\* What toTsType can return
ScalarResults ==
  {s_number, s_bigint, s_string, s_Date, s_Blob, s_boolean, s_anyArr, s_Record, s_any}

\* A result of toTsType, or an array of one
RECURSIVE IsScalarResult(_)
IsScalarResult(typeName) ==
  \/ typeName \in ScalarResults
  \/ /\ EndsWith(typeName, <<"[","]">>)
     /\ IsScalarResult(SubSeq(typeName, 1, Len(typeName) - 2))

\* C17: no dependency name of a declaration is a result of toTsType (number,
\* bigint, string, Date, Blob, boolean, any[], Record<string, any>) or an array
\* of one: a property, array item or composition member that resolves to a
\* primitive is not recorded as a dependency.
C17_NoScalarDependency ==
  \A k \in DOMAIN typeDefinitions.log :
    \A n \in Range(typeDefinitions.log[k].dependencies) : ~IsScalarResult(n)

-----------------------------------------------------------------------------
(* Names: sanitizeTypeName and toPascalCase on a name                         *)

n_userHyphenProfile == <<"u","s","e","r","-","p","r","o","f","i","l","e">>
n_userUnderscoreProfile == <<"u","s","e","r","_","p","r","o","f","i","l","e">>
n_userSpaceProfile == <<"u","s","e","r"," ","p","r","o","f","i","l","e">>
n_UserProfile == <<"U","s","e","r","P","r","o","f","i","l","e">>

NameChars == {"a", "b", "B", "-", "_", " ", "."}

MaxNameLen == 3

\* The names: every string of one to MaxNameLen characters, and three longer
\* ones
Names ==
  UNION { [1..n -> NameChars] : n \in 1..MaxNameLen }
    \cup {n_userHyphenProfile, n_userUnderscoreProfile, n_userSpaceProfile}

InitNames ==
  /\ InitGenerator({<<>>})
  /\ client = <<>>
  /\ command = <<>>
  /\ request = <<>>
  /\ \E name \in Names : pure = [name |-> name, sanitized |-> <<>>, pascal |-> <<>>]

\* sanitizeTypeName(name)
ApplySanitizeTypeName ==
  /\ pure # <<>>
  /\ pure.sanitized = <<>>
  /\ pure' = [pure EXCEPT !.sanitized = <<sanitizeTypeName(pure.name)>>]
  /\ UNCHANGED <<generatorVars, client, command, request>>

\* toPascalCase(name)
ApplyToPascalCase ==
  /\ pure # <<>>
  /\ pure.pascal = <<>>
  /\ pure' = [pure EXCEPT !.pascal = <<toPascalCase(pure.name)>>]
  /\ UNCHANGED <<generatorVars, client, command, request>>

NextNames == ApplySanitizeTypeName \/ ApplyToPascalCase

SpecNames == InitNames /\ [][NextNames]_vars

\* The name takes the third branch of sanitizeTypeName
TakesPascalBranch(name) ==
  ~StartsUpper(name) /\ ~HasCamelHump(name) /\ ~EndsWith(name, s_DTO)

\* The segments of a name between hyphens, underscores and whitespace, each
\* with its first letter capitalized unless it starts uppercase, joined
SegmentsCapitalized(name) ==
  LET words == Split(name, Delimiters) IN
  Join([k \in DOMAIN words |-> PascalWordKeep(words[k])], <<>>)

\* C18: sanitizeTypeName of a name that does not start with an uppercase
\* letter, has no camel hump and does not end in DTO is the name's segments
\* between hyphens, underscores and whitespace, each capitalized, joined, and
\* holds word characters only; user-profile, user_profile and user profile all
\* give UserProfile.
C18_SegmentwiseCapitalization ==
  (pure # <<>> /\ pure.sanitized # <<>> /\ TakesPascalBranch(pure.name))
    => /\ pure.sanitized[1] = SegmentsCapitalized(pure.name)
       /\ \A k \in DOMAIN pure.sanitized[1] : IsWord(pure.sanitized[1][k])
       /\ pure.name \in {n_userHyphenProfile, n_userUnderscoreProfile, n_userSpaceProfile}
            => pure.sanitized[1] = n_UserProfile

-----------------------------------------------------------------------------
(* The promise of fetchFromUrl                                                *)

Settled == request # <<>> /\ request.promise # "pending"

\* A settled promise keeps its state and its value
StaysSettled ==
  Settled => /\ request'.promise = request.promise
             /\ request'.value = request.value

\* The state of the promise agrees with what the transport did: rejected on a
\* status other than 200, on a request error and on a body that is not JSON,
\* resolved with the parsed document in the one remaining case
OutcomeMatches ==
  request # <<>> =>
    /\ (request.status # "sent" /\ ~request.listening) => request.promise = "rejected"
    /\ request.status = "error" => request.promise = "rejected"
    /\ (request.status = "ended" /\ JsonParse(request.data).threw)
         => request.promise = "rejected"
    /\ request.promise = "resolved"
         => /\ request.listening
            /\ request.status = "ended"
            /\ ~JsonParse(request.data).threw
            /\ request.value = <<JsonParse(request.data).value>>

\* C19: in every run of the response, data, end and request-error callbacks
\* the promise of fetchFromUrl is settled at some point, is never settled a
\* second time, is rejected on a status other than 200, on a transport error
\* (also one after the response started) and on malformed JSON, and is
\* resolved with the parsed object only when a 200 response ended with valid
\* JSON.
C19_SettlesExactlyOnce ==
  /\ <>Settled
  /\ [][StaysSettled]_vars
  /\ []OutcomeMatches

-----------------------------------------------------------------------------
(* The argument names a method body reads                                     *)

\* The fixed texts of a method body that read the argument of a name
ReadsOf(name) ==
  IF name = a_queryParams THEN {"    if (queryParams.", "', String(queryParams."}
  ELSE IF name = a_data THEN {"      body: JSON.stringify(data),\n"}
  ELSE {"        ...headers,\n", "': headers?.['", "        ...(headers?.['",
        "': headers['"}

\* The body of the method text reads the argument of that name
BodyReads(text, name) ==
  \E i \in (TokenFrom(text, 1, "): Promise<any> {\n") + 1)..Len(text) :
    text[i] \in ReadsOf(name)

\* C20: the body of a generated method reads queryParams, data and headers
\* only when its signature declares them, whatever the path, query and header
\* parameters and the request body of the endpoint.
C20_BodyNamesDeclared ==
  client # <<>> =>
    \A name \in {a_queryParams, a_data, a_headers} :
      BodyReads(client.text, name) => name \in Range(SignatureNames(client.text))

-----------------------------------------------------------------------------
(* References: the name a $ref resolves to and the name its target is         *)
(* declared under                                                             *)

\* The schemas that refer to the schema of a name
Referrers(target) ==
  { ObjectOf(s_object, <<Prop(n_owner, RefTo(target))>>, <<>>),
    ArrayOf(RefTo(target)) }

\* The schemas that are referred to
Targets == { ObjectOf(s_object, <<Prop(n_id, Int64)>>, <<>>), StringEnum, DateTime }

\* Documents of two top-level schemas, one referring to a name, in both orders;
\* the name is that of the other schema, its own, or that of no schema
ReferenceDocuments ==
  UNION { UNION { { Document(<<Prop(x[1], referrer), Prop(x[2], target)>>,
                             <<PathEntry(p_pets, s_get, NoOperation)>>),
                    Document(<<Prop(x[2], target), Prop(x[1], referrer)>>,
                             <<PathEntry(p_pets, s_get, NoOperation)>>) } :
                  referrer \in Referrers(x[3]), target \in Targets } :
          x \in { y \in SchemaNames \X SchemaNames \X SchemaNames : y[1] # y[2] } }

InitReferences == InitWith({<<d>> : d \in ReferenceDocuments})

\* Runs on documents whose schemas refer to one another
SpecReferences == InitReferences /\ [][Next]_vars

\* The names the $refs of a raw schema end in
RECURSIVE RawReferences(_)
RawReferences(schema) ==
  (IF Truthy(schema.ref) THEN {RefTail(schema.ref[1])} ELSE {})
    \cup UNION { RawReferences(schema.properties[k].schema) : k \in DOMAIN schema.properties }
    \cup UNION { RawReferences(schema.items[k]) : k \in DOMAIN schema.items }
    \cup UNION { UNION { RawReferences(list[k]) : k \in DOMAIN list } :
                 list \in Range(schema.allOf) \cup Range(schema.oneOf)
                            \cup Range(schema.anyOf) }

\* Every $ref of the schemas of a raw document names one of its top-level
\* schemas
ReferencesTargetTopLevel(spec) ==
  LET schemas == RawSchemas(spec) IN
  \A k \in DOMAIN schemas :
    RawReferences(schemas[k].schema) \subseteq { schemas[j].key : j \in DOMAIN schemas }

\* C21: at the end of a run on a document in which every $ref names a
\* top-level schema, every dependency name the resolver returned for a
\* reference is the name of a declaration of the structural, alias or
\* enumerated sequences: no dependency dangles.
C21_ReferencesDeclared ==
  \A r \in Range(results) :
    (~r.threw /\ ReferencesTargetTopLevel(r.raw))
      => \A i \in DOMAIN r.typeDefinitions.log :
           LET e == r.typeDefinitions.log[i] IN
           \A k \in DOMAIN e.dependencies :
             e.depVia[k] = "reference"
               => \E d \in Range(SchemaDeclarations(r.typeDefinitions)) :
                    d.name = e.dependencies[k]


====
